---- MODULE Spec2Model ----
(***************************************************************************)
(* reDeploy: the deployment trigger (netlify/functions/deployment-trigger, *)
(* kept here as src/unnamed/part_001).                                     *)
(*                                                                         *)
(*   createEmptyCommit       four GitHub Git Data calls, one after another *)
(*   triggerDeployment       one repository, its branches one by one       *)
(*   triggerBatchDeployment  chunks of `concurrency` repositories          *)
(*   DeploymentQueue         the rate limited task queue                   *)
(*                                                                         *)
(* and the server around it: the deployment groups (src/unnamed/part_000), *)
(* the deploy endpoint and the trigger path of the webhook endpoint (both  *)
(* in src/netlify/functions/groups.js) with the history they write.        *)
(*                                                                         *)
(* JavaScript runs one continuation at a time.  A step of the model is one *)
(* continuation: from the delivery of a reply (or the firing of a timer)   *)
(* to the next await that really suspends.  The upstream acts on a request *)
(* at the instant its reply is delivered.                                  *)
(***************************************************************************)
EXTENDS Integers, Sequences, FiniteSets, TLC

\* ------------------------------------------------------------ bounds ----
MaxBranches == 2
MaxRepos == 3
MaxConcurrency == 2
MaxTasks == 3
MaxRateLimit == 2
MaxWindow == 3
MaxTime == 5
MaxGroups == 3

\* --------------------------------------------------------- constants ----
DefaultConcurrency == 3
DefaultRateLimit == 30
DefaultRateLimitWindow == 60000

Undefined == "<undefined>"
Owner == "owner"
\* the branch names a caller may pass; the upstream repositories hold only
\* the first two, so "gone" is a branch whose ref lookup answers 404
Branches == {"main", "develop", "gone"}
UpstreamBranches == {"main", "develop"}
RepoIds == 1..MaxRepos

VARIABLES
    repos,        \* triggerBatchDeployment's argument: the repo configs
    options,      \* triggerBatchDeployment's options argument
    faults,       \* the faulty replies this upstream may give (fixed)
    refs,         \* upstream: refs[repo][branch] = sha of the branch head
    commits,      \* upstream: commits[repo][sha] = the commit object
    pushed,       \* another client of the upstream has pushed a commit
    batchPc,      \* where triggerBatchDeployment stands
    i,            \* its loop variable (0-based, as in the source)
    results,      \* its results array
    batchResult,  \* what it returned
    tasks,        \* tasks[k]: the triggerDeployment call for repos[k]
    overtaken     \* a later repository of a chunk settled before an earlier one

deployVars == <<repos, options, faults, refs, commits, pushed, batchPc, i,
                results, batchResult, tasks, overtaken>>

VARIABLES
    clock,        \* Date.now(), in ms
    queue,        \* this.queue
    rateLimit,    \* this.rateLimit
    rateLimitWindow,  \* this.rateLimitWindow
    requestCount, \* this.requestCount
    windowStart,  \* this.windowStart
    qpc,          \* where process() stands
    idx,          \* the index of the task the for loop of process() is at
    qresults,     \* the results array of process()
    wakeAt,       \* when the timer of the rate limit wait is due
    starts,       \* the times at which the first call of process() started
                  \* tasks, in order
    windowStarts, \* those of them since the first call last set windowStart
    started,      \* the ids of the tasks that were started, in order
    qoptions      \* the options the queue was constructed with

\* a second call of process() on the same queue, made after the first
VARIABLES
    qpc2,         \* where the second call of process() stands
    idx2,         \* the index its for loop is at
    qresults2,    \* its results array
    wakeAt2,      \* when its timer is due
    started2      \* the ids of the tasks it started, in order

secondVars == <<qpc2, idx2, qresults2, wakeAt2, started2>>

queueVars == <<clock, queue, rateLimit, rateLimitWindow, requestCount,
               windowStart, qpc, idx, qresults, wakeAt, starts, windowStarts,
               started, qoptions, secondVars>>

VARIABLES
    groupStore,   \* groupStore: the groups of every user, in insertion order
    ids,          \* how many ids generateId has handed out
    thrown        \* the code of what the last group operation threw, if any

groupVars == <<groupStore, ids, thrown>>

VARIABLES
    configStore,  \* configStore: the repository configurations of every user
    webhookStore, \* webhookStore: the webhooks of every user
    historyStore, \* historyStore: the deployment history of every user
    request,      \* the event the endpoint was invoked with
    hpc,          \* where the endpoint's handler stands
    response      \* what the handler returned

apiVars == <<configStore, webhookStore, historyStore, request, hpc, response>>

serverVars == <<groupVars, apiVars>>

vars == <<deployVars, queueVars, serverVars>>

\* ------------------------------------------------------- the upstream ---
OkReply(sha, tree) ==
    [kind |-> "http", ok |-> TRUE, status |-> 200, message |-> Undefined,
     sha |-> sha, tree |-> tree]

ErrReply(status, message) ==
    [kind |-> "http", ok |-> FALSE, status |-> status, message |-> message,
     sha |-> 0, tree |-> 0]

\* fetch itself rejects: no HTTP response at all
NetworkFailure ==
    [kind |-> "network", ok |-> FALSE, status |-> 0,
     message |-> "fetch failed", sha |-> 0, tree |-> 0]

\* error replies carry a JSON body, with or without a usable message field
AllFaults ==
    {ErrReply(500, "Server error"), ErrReply(502, Undefined),
     ErrReply(403, ""), NetworkFailure}

\* shas are 1, 2, ... and tree ids 11, 12, ...
InitialCommits == (1 :> [tree |-> 11, parents |-> <<>>, message |-> "init"])
               @@ (2 :> [tree |-> 12, parents |-> <<1>>, message |-> "dev"])

InitialRefs == ("main" :> 1) @@ ("develop" :> 2)

FreshSha(store) == Cardinality(DOMAIN store) + 1

RECURSIVE IsAncestor(_, _, _)
IsAncestor(store, a, b) ==
    \/ a = b
    \/ /\ b \in DOMAIN store
       /\ \E p \in 1..Len(store[b].parents) :
              IsAncestor(store, a, store[b].parents[p])

\* GET /repos/{owner}/{repo}/git/refs/heads/{branch}
ServeGetRef(repo, branch) ==
    [reply |-> IF branch \in DOMAIN refs[repo]
               THEN OkReply(refs[repo][branch], 0)
               ELSE ErrReply(404, "Not Found"),
     refs |-> refs[repo], commits |-> commits[repo]]

\* GET /repos/{owner}/{repo}/git/commits/{sha}
ServeGetCommit(repo, sha) ==
    [reply |-> IF sha \in DOMAIN commits[repo]
               THEN OkReply(sha, commits[repo][sha].tree)
               ELSE ErrReply(404, "Not Found"),
     refs |-> refs[repo], commits |-> commits[repo]]

\* POST /repos/{owner}/{repo}/git/commits  {message, tree, parents}
ServePostCommit(repo, message, tree, parents) ==
    IF \A p \in 1..Len(parents) : parents[p] \in DOMAIN commits[repo]
    THEN [reply |-> OkReply(FreshSha(commits[repo]), tree),
          refs |-> refs[repo],
          commits |-> commits[repo] @@
              (FreshSha(commits[repo]) :>
                  [tree |-> tree, parents |-> parents, message |-> message])]
    ELSE [reply |-> ErrReply(422, "Parent does not exist"),
          refs |-> refs[repo], commits |-> commits[repo]]

\* PATCH /repos/{owner}/{repo}/git/refs/heads/{branch}  {sha, force}
\* an update that is not forced is refused unless it is a fast forward
ServePatchRef(repo, branch, sha, force) ==
    IF /\ branch \in DOMAIN refs[repo]
       /\ sha \in DOMAIN commits[repo]
       /\ (force \/ IsAncestor(commits[repo], refs[repo][branch], sha))
    THEN [reply |-> OkReply(sha, 0),
          refs |-> [refs[repo] EXCEPT ![branch] = sha],
          commits |-> commits[repo]]
    ELSE [reply |-> ErrReply(422, "Update is not a fast forward"),
          refs |-> refs[repo], commits |-> commits[repo]]

\* a reply that is a fault leaves the upstream as it was
Faulty(repo, fault) ==
    [reply |-> fault, refs |-> refs[repo], commits |-> commits[repo]]

\* the upstream acted on the request and the connection broke before the
\* response arrived: fetch rejects although the request took effect
LostReply(served) == [served EXCEPT !.reply = NetworkFailure]

\* -------------------------------------------------- createEmptyCommit ---
DeploymentError(message, code, status) ==
    [name |-> "DeploymentError", message |-> message, code |-> code,
     status |-> status]

\* what fetch throws when the network fails: an Error without code or status
FetchError(message) ==
    [name |-> "TypeError", message |-> message, code |-> Undefined,
     status |-> 0]

NoError == [name |-> Undefined, message |-> Undefined, code |-> Undefined,
            status |-> 0]

\* JavaScript's a || b on strings: the empty string and undefined are falsy
OrDefault(value, default) ==
    IF value = Undefined \/ value = "" THEN default ELSE value

\* the wall clock of the message is not modelled
generateCommitMessage == "chore: trigger rebuild [now]"

EffectiveMessage(message) == OrDefault(message, generateCommitMessage)

GenericMessage(step) ==
    CASE step = 1 -> "Failed to get branch reference"
      [] step = 2 -> "Failed to get commit data"
      [] step = 3 -> "Failed to create commit"
      [] step = 4 -> "Failed to update branch reference"

ErrorCodeOfFirstStep(step) == "REF_NOT_FOUND"

ErrorCode(step) ==
    CASE step = 1 -> "REF_NOT_FOUND"
      [] step = 2 -> "COMMIT_NOT_FOUND"
      [] step = 3 -> "COMMIT_CREATE_FAILED"
      [] step = 4 -> "REF_UPDATE_FAILED"

\* step 3 posting the commit's sha where the tree's sha belongs
ServeCommitShaAsTree(t, repo, branch) ==
    CASE t.step = 1 -> ServeGetRef(repo, branch)
      [] t.step = 2 -> ServeGetCommit(repo, t.currentCommitSha)
      [] t.step = 3 -> ServePostCommit(repo, t.message, t.currentCommitSha,
                                       <<t.currentCommitSha>>)
      [] t.step = 4 -> ServePatchRef(repo, branch, t.newCommitSha, FALSE)

\* step 4 sending force: true
ServeForcedUpdate(t, repo, branch) ==
    CASE t.step = 1 -> ServeGetRef(repo, branch)
      [] t.step = 2 -> ServeGetCommit(repo, t.currentCommitSha)
      [] t.step = 3 -> ServePostCommit(repo, t.message, t.treeSha,
                                       <<t.currentCommitSha>>)
      [] t.step = 4 -> ServePatchRef(repo, branch, t.newCommitSha, TRUE)

\* the request createEmptyCommit has outstanding at step t.step, served
Serve(t, repo, branch) ==
    CASE t.step = 1 -> ServeGetRef(repo, branch)
      [] t.step = 2 -> ServeGetCommit(repo, t.currentCommitSha)
      [] t.step = 3 -> ServePostCommit(repo, t.message, t.treeSha,
                                       <<t.currentCommitSha>>)
      [] t.step = 4 -> ServePatchRef(repo, branch, t.newCommitSha, FALSE)

\* what may come of that request: the upstream serves it, or the call fails
\* with one of the faults and the upstream untouched, or (where the network
\* can fail) the request is served and its response lost
Outcomes(t, repo, branch) ==
    {Serve(t, repo, branch)}
        \cup {Faulty(repo, f) : f \in faults}
        \cup {LostReply(Serve(t, repo, branch)) :
                  f \in faults \cap {NetworkFailure}}

\* step 3 left out: the ref is updated to the head it already has
CreateEmptyCommitStepWithoutCommit(t, branch, reply) ==
    IF reply.kind = "network"
    THEN [kind |-> "throw", error |-> FetchError(reply.message)]
    ELSE IF ~reply.ok
    THEN [kind |-> "throw",
          error |-> DeploymentError(
                        OrDefault(reply.message, GenericMessage(t.step)),
                        ErrorCode(t.step), reply.status)]
    ELSE CASE t.step = 1 ->
                [kind |-> "await",
                 task |-> [t EXCEPT !.step = 2, !.currentCommitSha = reply.sha]]
           [] t.step = 2 ->
                [kind |-> "await",
                 task |-> [t EXCEPT !.step = 4, !.treeSha = reply.tree,
                                    !.newCommitSha = t.currentCommitSha]]
           [] t.step = 3 ->
                [kind |-> "await",
                 task |-> [t EXCEPT !.step = 4, !.newCommitSha = reply.sha]]
           [] t.step = 4 ->
                [kind |-> "return",
                 value |-> [sha |-> t.newCommitSha, branch |-> branch,
                            message |-> t.message]]

\* the check of step 2 left out: a refused commit GET is read like a commit
CreateEmptyCommitStepUncheckedGet(t, branch, reply) ==
    IF reply.kind = "network"
    THEN [kind |-> "throw", error |-> FetchError(reply.message)]
    ELSE IF ~reply.ok /\ t.step # 2
    THEN [kind |-> "throw",
          error |-> DeploymentError(
                        OrDefault(reply.message, GenericMessage(t.step)),
                        ErrorCode(t.step), reply.status)]
    ELSE CASE t.step = 1 ->
                [kind |-> "await",
                 task |-> [t EXCEPT !.step = 2, !.currentCommitSha = reply.sha]]
           [] t.step = 2 ->
                [kind |-> "await",
                 task |-> [t EXCEPT !.step = 3, !.treeSha = reply.tree]]
           [] t.step = 3 ->
                [kind |-> "await",
                 task |-> [t EXCEPT !.step = 4, !.newCommitSha = reply.sha]]
           [] t.step = 4 ->
                [kind |-> "return",
                 value |-> [sha |-> t.newCommitSha, branch |-> branch,
                            message |-> t.message]]

\* the check of step 4 inverted: if (updateRes.ok) throw ...
CreateEmptyCommitStepInvertedCheck(t, branch, reply) ==
    IF reply.kind = "network"
    THEN [kind |-> "throw", error |-> FetchError(reply.message)]
    ELSE IF (t.step < 4 /\ ~reply.ok) \/ (t.step = 4 /\ reply.ok)
    THEN [kind |-> "throw",
          error |-> DeploymentError(
                        OrDefault(reply.message, GenericMessage(t.step)),
                        ErrorCode(t.step), reply.status)]
    ELSE CASE t.step = 1 ->
                [kind |-> "await",
                 task |-> [t EXCEPT !.step = 2, !.currentCommitSha = reply.sha]]
           [] t.step = 2 ->
                [kind |-> "await",
                 task |-> [t EXCEPT !.step = 3, !.treeSha = reply.tree]]
           [] t.step = 3 ->
                [kind |-> "await",
                 task |-> [t EXCEPT !.step = 4, !.newCommitSha = reply.sha]]
           [] t.step = 4 ->
                [kind |-> "return",
                 value |-> [sha |-> t.newCommitSha, branch |-> branch,
                            message |-> t.message]]

\* createEmptyCommit resumed with the reply to the call of step t.step:
\* it throws, goes on to its next call, or returns the CommitResult
CreateEmptyCommitStep(t, branch, reply) ==
    IF reply.kind = "network"
    THEN [kind |-> "throw", error |-> FetchError(reply.message)]
    ELSE IF ~reply.ok
    THEN [kind |-> "throw",
          error |-> DeploymentError(
                        OrDefault(reply.message, GenericMessage(t.step)),
                        ErrorCode(t.step), reply.status)]
    ELSE CASE t.step = 1 ->
                [kind |-> "await",
                 task |-> [t EXCEPT !.step = 2, !.currentCommitSha = reply.sha]]
           [] t.step = 2 ->
                [kind |-> "await",
                 task |-> [t EXCEPT !.step = 3, !.treeSha = reply.tree]]
           [] t.step = 3 ->
                [kind |-> "await",
                 task |-> [t EXCEPT !.step = 4, !.newCommitSha = reply.sha]]
           [] t.step = 4 ->
                [kind |-> "return",
                 value |-> [sha |-> t.newCommitSha, branch |-> branch,
                            message |-> t.message]]

\* -------------------------------------------------- triggerDeployment ---
IdleTask ==
    [pc |-> "idle", b |-> 0, step |-> 0, currentCommitSha |-> 0,
     treeSha |-> 0, newCommitSha |-> 0, message |-> Undefined,
     results |-> <<>>, invoked |-> <<>>, caught |-> NoError,
     value |-> [status |-> Undefined]]

SuccessOutcome(branch, result) ==
    [branch |-> branch, status |-> "success", sha |-> result.sha]

FailedOutcome(branch, error) ==
    [branch |-> branch, status |-> "failed", error |-> error.message,
     code |-> error.code]

\* results.filter((r) => r.status === s).length
CountStatus(rs, s) == Cardinality({k \in 1..Len(rs) : rs[k].status = s})

DeploymentStatusAnyFailure(rs) ==
    IF CountStatus(rs, "failed") > 0 THEN "failed" ELSE "success"

DeploymentStatus(rs) ==
    IF CountStatus(rs, "failed") = Len(rs) THEN "failed"
    ELSE IF CountStatus(rs, "failed") > 0 THEN "partial"
    ELSE "success"

DeploymentResult(config, rs) ==
    [repo |-> <<config.owner, config.repo>>,
     status |-> DeploymentStatus(rs),
     branches |-> rs,
     summary |-> [total |-> Len(rs),
                  successful |-> CountStatus(rs, "success"),
                  failed |-> CountStatus(rs, "failed")]]

CatchesDeploymentErrorOnly(error) == error.name = "DeploymentError"

\* the catch clause of triggerDeployment catches whatever is thrown
Catches(error) == TRUE

\* the loop left at the first failed branch
NextBranchUnlessFailed(t, config, rs) ==
    IF /\ t.b < Len(config.branches)
       /\ (rs = <<>> \/ rs[Len(rs)].status # "failed")
    THEN [t EXCEPT !.pc = "awaiting", !.b = t.b + 1, !.step = 1,
                   !.currentCommitSha = 0, !.treeSha = 0, !.newCommitSha = 0,
                   !.message = EffectiveMessage(config.message),
                   !.results = rs,
                   !.invoked = Append(t.invoked, config.branches[t.b + 1])]
    ELSE [t EXCEPT !.pc = "resolved", !.step = 0,
                   !.currentCommitSha = 0, !.treeSha = 0, !.newCommitSha = 0,
                   !.results = rs,
                   !.value = DeploymentResult(config, rs)]

\* the branches not awaited one by one: at the start createEmptyCommit is
\* called for every branch (Promise.all(branches.map(...)))
NextBranchFanOut(t, config, rs) ==
    IF t.b < Len(config.branches)
    THEN [t EXCEPT !.pc = "awaiting", !.b = t.b + 1, !.step = 1,
                   !.currentCommitSha = 0, !.treeSha = 0, !.newCommitSha = 0,
                   !.message = EffectiveMessage(config.message),
                   !.results = rs,
                   !.invoked = config.branches]
    ELSE [t EXCEPT !.pc = "resolved", !.step = 0,
                   !.currentCommitSha = 0, !.treeSha = 0, !.newCommitSha = 0,
                   !.results = rs,
                   !.value = DeploymentResult(config, rs)]

\* the for loop after the branch at index t.b is done, with the results so
\* far: createEmptyCommit is called for the next branch and suspends at its
\* first call, or the loop is over and triggerDeployment returns
NextBranch(t, config, rs) ==
    IF t.b < Len(config.branches)
    THEN [t EXCEPT !.pc = "awaiting", !.b = t.b + 1, !.step = 1,
                   !.currentCommitSha = 0, !.treeSha = 0, !.newCommitSha = 0,
                   !.message = EffectiveMessage(config.message),
                   !.results = rs,
                   !.invoked = Append(t.invoked, config.branches[t.b + 1])]
    ELSE [t EXCEPT !.pc = "resolved", !.step = 0,
                   !.currentCommitSha = 0, !.treeSha = 0, !.newCommitSha = 0,
                   !.results = rs,
                   !.value = DeploymentResult(config, rs)]

\* triggerDeployment calling createEmptyCommit for all its branches at once
TriggerDeploymentFanOut(config) == NextBranchFanOut(IdleTask, config, <<>>)

\* triggerDeployment called: it runs up to its first await
TriggerDeployment(config) == NextBranch(IdleTask, config, <<>>)

\* triggerDeployment resumed with the reply to its outstanding call
Resume(t, config, reply) ==
    LET branch == config.branches[t.b]
        r == CreateEmptyCommitStep(t, branch, reply)
    IN  CASE r.kind = "await" -> r.task
          [] r.kind = "return" ->
                NextBranch(t, config,
                           Append(t.results, SuccessOutcome(branch, r.value)))
          [] r.kind = "throw" ->
                IF Catches(r.error)
                THEN NextBranch([t EXCEPT !.caught = r.error], config,
                                Append(t.results, FailedOutcome(branch, r.error)))
                ELSE [t EXCEPT !.pc = "rejected", !.caught = r.error]

\* ---------------------------------------------- triggerBatchDeployment ---
\* const { concurrency = 3 } = options
Concurrency(opts) ==
    IF opts.hasConcurrency THEN opts.concurrency ELSE DefaultConcurrency

SliceIndicesInclusive(n, from, to) == {k \in 1..n : from < k /\ k <= to + 1}

\* the (1-based) indices of repos.slice(from, to)
SliceIndices(n, from, to) == {k \in 1..n : from < k /\ k <= to}

Chunk == SliceIndices(Len(repos), i, i + Concurrency(options))

\* the indices of a set in increasing order
RECURSIVE Ascending(_)
Ascending(S) ==
    IF S = {} THEN <<>>
    ELSE LET m == CHOOSE x \in S : \A y \in S : x <= y
         IN  <<m>> \o Ascending(S \ {m})

PromiseAllReversed(order) ==
    [j \in 1..Len(order) |-> tasks[order[Len(order) + 1 - j]].value]

\* Promise.all: the values of the chunk's promises, in the order of the
\* array it was given
PromiseAll(order) == [j \in 1..Len(order) |-> tasks[order[j]].value]

\* resuming as soon as one promise of the chunk is resolved
AnySettled == \E k \in Chunk : tasks[k].pc = "resolved"

\* await Promise.all(...) is over: every promise of the chunk is resolved, or
\* one is rejected
AllSettled ==
    \/ \A k \in Chunk : tasks[k].pc = "resolved"
    \/ \E k \in Chunk : tasks[k].pc = "rejected"

BatchSummaryWithoutPartial(rs) ==
    [total |-> Len(rs),
     successful |-> CountStatus(rs, "success"),
     failed |-> CountStatus(rs, "failed"),
     partial |-> 0]

BatchSummary(rs) ==
    [total |-> Len(rs),
     successful |-> CountStatus(rs, "success"),
     failed |-> CountStatus(rs, "failed"),
     partial |-> CountStatus(rs, "partial")]

NoBatchResult == [results |-> <<>>, summary |-> BatchSummary(<<>>)]

\* ------------------------------------- DeploymentQueue, constructed ---
\* options.x || d on numbers: undefined and 0 are falsy
NumberOrDefault(given, value, default) ==
    IF ~given \/ value = 0 THEN default ELSE value

QueueOptions(hasLimit, limit, hasWindow, window) ==
    [hasRateLimit |-> hasLimit, rateLimit |-> limit,
     hasRateLimitWindow |-> hasWindow, rateLimitWindow |-> window,
     hasRateLimitWindowMs |-> FALSE, rateLimitWindowMs |-> 0]

\* the same options with a property rateLimitWindowMs added
WithWindowMs(opts, window) ==
    [opts EXCEPT !.hasRateLimitWindowMs = TRUE, !.rateLimitWindowMs = window]

\* the constructor reading options.rateLimitWindowMs
ConstructorReadingWindowMs(opts, now) ==
    /\ qoptions = opts
    /\ queue = <<>>
    /\ rateLimit = NumberOrDefault(opts.hasRateLimit, opts.rateLimit,
                                   DefaultRateLimit)
    /\ rateLimitWindow = NumberOrDefault(opts.hasRateLimitWindowMs,
                                         opts.rateLimitWindowMs,
                                         DefaultRateLimitWindow)
    /\ requestCount = 0
    /\ windowStart = now

\* new DeploymentQueue(opts), made at time `now`
Constructor(opts, now) ==
    /\ qoptions = opts
    /\ queue = <<>>
    /\ rateLimit = NumberOrDefault(opts.hasRateLimit, opts.rateLimit,
                                   DefaultRateLimit)
    /\ rateLimitWindow = NumberOrDefault(opts.hasRateLimitWindow,
                                         opts.rateLimitWindow,
                                         DefaultRateLimitWindow)
    /\ requestCount = 0
    /\ windowStart = now

\* process() not called a second time
NoSecondCall ==
    /\ qpc2 = "idle"
    /\ idx2 = 0
    /\ qresults2 = <<>>
    /\ wakeAt2 = 0
    /\ started2 = <<>>

\* a queue nobody uses, for the runs that are about deployments alone
QueueAtRest ==
    /\ clock = 0
    /\ Constructor(QueueOptions(FALSE, 0, FALSE, 0), 0)
    /\ qpc = "idle"
    /\ idx = 0
    /\ qresults = <<>>
    /\ wakeAt = 0
    /\ starts = <<>>
    /\ windowStarts = <<>>
    /\ started = <<>>
    /\ NoSecondCall

\* ------------------------------------------------- the in-memory stores ---
Users == {"user1", "user2"}

\* const groupStore = new Map(), and no operation on it yet
GroupsAtRest ==
    /\ groupStore = [u \in Users |-> <<>>]
    /\ ids = 0
    /\ thrown = Undefined

NoRequest == [endpoint |-> Undefined]

NoResponse == [statusCode |-> 0]

\* the other stores empty, and no request to an endpoint
ApiAtRest ==
    /\ configStore = [u \in Users |-> <<>>]
    /\ webhookStore = [u \in Users |-> <<>>]
    /\ historyStore = [u \in Users |-> <<>>]
    /\ request = NoRequest
    /\ hpc = "idle"
    /\ response = NoResponse

\* the server's stores, for the runs that do not touch them
ServerAtRest == GroupsAtRest /\ ApiAtRest

\* -------------------------------------------------------------- inputs ---
RECURSIVE SeqsUpTo(_, _)
SeqsUpTo(S, n) ==
    IF n = 0 THEN {<<>>}
    ELSE SeqsUpTo(S, n - 1) \cup
         {Append(q, x) : q \in {r \in SeqsUpTo(S, n - 1) : Len(r) = n - 1},
                         x \in S}

Config(repo, branches, message) ==
    [owner |-> Owner, repo |-> repo, branches |-> branches,
     message |-> message]

NoOptions == [hasConcurrency |-> FALSE, concurrency |-> 0]

OptionsWith(c) == [hasConcurrency |-> TRUE, concurrency |-> c]

\* what does not depend on the arguments
Constructed ==
    /\ refs = [r \in RepoIds |-> InitialRefs]
    /\ commits = [r \in RepoIds |-> InitialCommits]
    /\ pushed = FALSE
    /\ batchPc = "loop"
    /\ i = 0
    /\ results = <<>>
    /\ batchResult = NoBatchResult
    /\ tasks = [k \in 1..Len(repos) |-> IdleTask]
    /\ overtaken = FALSE

\* one repository, any branch list, an upstream that may fail any call
Init ==
    /\ repos \in {<<Config(1, bl, m)>> :
                     bl \in SeqsUpTo(Branches, MaxBranches),
                     m \in {Undefined, "Custom deploy message"}}
    /\ options = NoOptions
    /\ faults = AllFaults
    /\ Constructed
    /\ QueueAtRest
    /\ ServerAtRest

\* --------------------------------------------------------------- steps ---
\* the loop body up to the await: the chunk's triggerDeployment calls
StartChunk ==
    /\ batchPc = "loop"
    /\ i < Len(repos)
    /\ tasks' = [k \in 1..Len(repos) |->
                    IF k \in Chunk THEN TriggerDeployment(repos[k])
                    ELSE tasks[k]]
    /\ batchPc' = "awaiting"
    /\ UNCHANGED <<repos, options, faults, refs, commits, pushed, i, results,
                   batchResult, overtaken, queueVars,
                   serverVars>>

\* the upstream answers the call task k has outstanding, and the task runs
\* on to its next call or to its end
Reply(k) ==
    /\ tasks[k].pc = "awaiting"
    /\ LET config == repos[k]
           branch == config.branches[tasks[k].b]
       IN  \E served \in Outcomes(tasks[k], config.repo, branch) :
             LET t == Resume(tasks[k], config, served.reply)
             IN  /\ tasks' = [tasks EXCEPT ![k] = t]
                 /\ refs' = [refs EXCEPT ![config.repo] = served.refs]
                 /\ commits' = [commits EXCEPT ![config.repo] = served.commits]
                 /\ overtaken' =
                        (overtaken \/
                         (t.pc # "awaiting" /\
                          \E j \in Chunk : j < k /\ tasks[j].pc = "awaiting"))
    /\ UNCHANGED <<repos, options, faults, pushed, batchPc, i, results,
                   batchResult, queueVars,
                   serverVars>>

\* somebody else pushed a commit to a branch of an upstream repository
ExternalPush(repo, branch) ==
    /\ batchPc = "awaiting"
    /\ ~pushed
    /\ branch \in DOMAIN refs[repo]
    /\ LET sha == FreshSha(commits[repo])
       IN  /\ commits' = [commits EXCEPT ![repo] = @ @@
                  (sha :> [tree |-> 10 + sha, parents |-> <<refs[repo][branch]>>,
                           message |-> "push"])]
           /\ refs' = [refs EXCEPT ![repo][branch] = sha]
    /\ pushed' = TRUE
    /\ UNCHANGED <<repos, options, faults, batchPc, i, results, batchResult,
                   tasks, overtaken, queueVars,
                   serverVars>>

\* await Promise.all(...) is over: it resolved with every value, or rejected
\* with the first rejection
SettleChunk ==
    /\ batchPc = "awaiting"
    /\ AllSettled
    /\ IF \E k \in Chunk : tasks[k].pc = "rejected"
       THEN /\ batchPc' = "rejected"
            /\ UNCHANGED <<i, results>>
       ELSE /\ results' = results \o PromiseAll(Ascending(Chunk))
            /\ i' = i + Concurrency(options)
            /\ batchPc' = "loop"
    /\ UNCHANGED <<repos, options, faults, refs, commits, pushed, batchResult,
                   tasks, overtaken, queueVars,
                   serverVars>>

\* the loop is over: the summary is counted and the result returned
Return ==
    /\ batchPc = "loop"
    /\ ~(i < Len(repos))
    /\ batchResult' = [results |-> results, summary |-> BatchSummary(results)]
    /\ batchPc' = "done"
    /\ UNCHANGED <<repos, options, faults, refs, commits, pushed, i, results,
                   tasks, overtaken, queueVars,
                   serverVars>>

Next ==
    \/ StartChunk
    \/ \E k \in 1..Len(repos) : Reply(k)
    \/ \E k \in 1..Len(repos), b \in UpstreamBranches :
          ExternalPush(repos[k].repo, b)
    \/ SettleChunk
    \/ Return

Spec == Init /\ [][Next]_vars

\* several repositories, each its own upstream repository, and an upstream
\* that fails a call only for the reason its state gives (a missing branch)
BatchBranchLists ==
    {bl \in SeqsUpTo({"main", "gone"}, 2) :
        \A x, y \in 1..Len(bl) : bl[x] = bl[y] => x = y}

InitBatch ==
    /\ \E n \in 0..MaxRepos :
         \E f \in [1..n -> BatchBranchLists] :
            repos = [k \in 1..n |-> Config(k, f[k], Undefined)]
    /\ options \in {NoOptions} \cup {OptionsWith(c) : c \in 1..MaxConcurrency}
    /\ faults = {}
    /\ Constructed
    /\ QueueAtRest
    /\ ServerAtRest

NextBatch ==
    \/ StartChunk
    \/ \E k \in 1..Len(repos) : Reply(k)
    \/ SettleChunk
    \/ Return

SpecBatch == InitBatch /\ [][NextBatch]_vars

\* the same batches with any concurrency a caller may pass, 0 included
\* (the option is not validated); every upstream call settles in the end
\* and the runtime runs every continuation that is ready
InitAnyConcurrency ==
    /\ \E n \in 0..MaxRepos :
         \E f \in [1..n -> BatchBranchLists] :
            repos = [k \in 1..n |-> Config(k, f[k], Undefined)]
    /\ options \in {NoOptions} \cup {OptionsWith(c) : c \in 0..MaxConcurrency}
    /\ faults = {}
    /\ Constructed
    /\ QueueAtRest
    /\ ServerAtRest

SpecBatchFair ==
    /\ InitAnyConcurrency
    /\ [][NextBatch]_vars
    /\ WF_vars(StartChunk)
    /\ WF_vars(\E k \in 1..Len(repos) : Reply(k))
    /\ WF_vars(SettleChunk)
    /\ WF_vars(Return)

\* two configurations of one chunk (or of two chunks, with concurrency 1)
\* that name the same upstream repository, their branch lists overlapping;
\* the upstream fails a call only for the reason its state gives, and
\* somebody else may push
RaceBranchLists ==
    {<<"main">>, <<"main", "develop">>, <<"develop", "main">>,
     <<"main", "main">>}

InitRace ==
    /\ repos \in {<<Config(1, a, Undefined), Config(1, b, Undefined)>> :
                     a \in RaceBranchLists, b \in RaceBranchLists}
    /\ options \in {NoOptions, OptionsWith(1)}
    /\ faults = {}
    /\ Constructed
    /\ QueueAtRest
    /\ ServerAtRest

SpecRace == InitRace /\ [][Next]_vars

\* ----------------------------------------------------- DeploymentQueue ---
\* how a queued task ends: it resolves, or throws an Error, or throws a
\* value that has no properties (throw undefined, Promise.reject())
Throws == {"nothing", "Error", "undefined"}

\* the queued tasks: task n resolves with n, or throws
Task(n, throws) == [id |-> n, throws |-> throws]

\* the message of the Error task n throws
ErrorMessage(task) == <<"Test error", task.id>>

\* what the try / catch of process() pushes for a task that resolved, or
\* that threw something with a message
TaskOutcome(task) ==
    IF task.throws = "Error"
    THEN [status |-> "error", error |-> ErrorMessage(task)]
    ELSE [status |-> "success", result |-> task.id]

\* error.message in the catch clause, where error is undefined, is itself a
\* TypeError, thrown outside any try
CatchClauseThrows(task) == task.throws = "undefined"

\* the queue taken from its end: this.queue.pop()
TaskAtFromEnd(k) == queue[Len(queue) + 1 - k]

\* for (const task of this.queue): the task of the k-th pass of the loop
TaskAt(k) == queue[k]

\* requestCount > rateLimit where >= belongs
LimitExceeded(count) == count > rateLimit

\* if (this.requestCount >= this.rateLimit)
LimitReached(count) == count >= rateLimit

\* setTimeout(resolve, waitTime): a delay under 1 ms is run as 1 ms
TimerDelay(waitTime) == IF waitTime < 1 THEN 1 ELSE waitTime

\* if (now - this.windowStart > this.rateLimitWindow)
WindowExpired(now, start) == now - start > rateLimitWindow

\* one pass of the for loop of process() from its top, for the task at
\* index k, with the counters as they stand: the loop is over and process()
\* returns, or it suspends on the timer, or it calls the task and suspends on
\* it
LoopFrom(k, count, start, before) ==
    LET now == clock
        expired == WindowExpired(now, start)
        count1 == IF expired THEN 0 ELSE count
        start1 == IF expired THEN now ELSE start
        before1 == IF expired THEN <<>> ELSE before
    IN  IF k > Len(queue)
        THEN /\ qpc' = "done"
             /\ idx' = k
             /\ requestCount' = count
             /\ windowStart' = start
             /\ windowStarts' = before
             /\ UNCHANGED <<wakeAt, starts, started>>
        ELSE IF LimitReached(count1)
        THEN /\ qpc' = "sleeping"
             /\ idx' = k
             /\ wakeAt' = now + TimerDelay(rateLimitWindow - (now - start1))
             /\ requestCount' = count1
             /\ windowStart' = start1
             /\ windowStarts' = before1
             /\ UNCHANGED <<starts, started>>
        ELSE /\ qpc' = "running"
             /\ idx' = k
             /\ requestCount' = count1
             /\ windowStart' = start1
             /\ starts' = Append(starts, now)
             /\ windowStarts' = Append(before1, now)
             /\ started' = Append(started, TaskAt(k).id)
             /\ UNCHANGED wakeAt

\* queue.add(task)
Add(throws) ==
    /\ qpc = "idle"
    /\ Len(queue) < MaxTasks
    /\ queue' = Append(queue, Task(Len(queue) + 1, throws))
    /\ UNCHANGED <<clock, rateLimit, rateLimitWindow, qoptions, requestCount,
                   windowStart, qpc, idx, qresults, wakeAt, starts,
                   windowStarts, started, deployVars,
                   secondVars, serverVars>>

\* queue.process() is called and runs up to its first await
Process ==
    /\ qpc = "idle"
    /\ qresults' = <<>>
    /\ LoopFrom(1, requestCount, windowStart, windowStarts)
    /\ UNCHANGED <<clock, queue, rateLimit, rateLimitWindow, qoptions, deployVars,
                   secondVars, serverVars>>

\* resuming from the wait without starting a new window
TimerFiresWithoutReset ==
    /\ qpc = "sleeping"
    /\ clock >= wakeAt
    /\ qpc' = "running"
    /\ starts' = Append(starts, clock)
    /\ windowStarts' = Append(windowStarts, clock)
    /\ started' = Append(started, TaskAt(idx).id)
    /\ UNCHANGED <<clock, queue, rateLimit, rateLimitWindow, qoptions, idx, qresults,
                   wakeAt, requestCount, windowStart, deployVars,
                   secondVars, serverVars>>

\* the timer of the wait fires, at its due time or later: the window is
\* reset and the task called
TimerFires ==
    /\ qpc = "sleeping"
    /\ clock >= wakeAt
    /\ requestCount' = 0
    /\ windowStart' = clock
    /\ qpc' = "running"
    /\ starts' = Append(starts, clock)
    /\ windowStarts' = <<clock>>
    /\ started' = Append(started, TaskAt(idx).id)
    /\ UNCHANGED <<clock, queue, rateLimit, rateLimitWindow, qoptions, idx, qresults,
                   wakeAt, deployVars,
                   secondVars, serverVars>>

\* the running task settles: its outcome is recorded, the request counted,
\* and the loop goes on to the next task; or the catch clause throws and
\* process() rejects
TaskSettles ==
    /\ qpc = "running"
    /\ IF CatchClauseThrows(TaskAt(idx))
       THEN /\ qpc' = "rejected"
            /\ UNCHANGED <<requestCount, windowStart, idx, qresults, wakeAt,
                           starts, windowStarts, started>>
       ELSE /\ qresults' = Append(qresults, TaskOutcome(TaskAt(idx)))
            /\ LoopFrom(idx + 1, requestCount + 1, windowStart, windowStarts)
    /\ UNCHANGED <<clock, queue, rateLimit, rateLimitWindow, qoptions, deployVars,
                   secondVars, serverVars>>

\* time passes
Tick ==
    /\ clock < MaxTime
    /\ clock' = clock + 1
    /\ UNCHANGED <<queue, rateLimit, rateLimitWindow, qoptions, requestCount,
                   windowStart, qpc, idx, qresults, wakeAt, starts,
                   windowStarts, started, deployVars,
                   secondVars, serverVars>>

\* no deployment, for the runs that are about the queue alone
DeploymentsAtRest ==
    /\ repos = <<>>
    /\ options = NoOptions
    /\ faults = {}
    /\ Constructed

InitQueue ==
    /\ clock = 0
    /\ \E hasLimit, hasWindow \in BOOLEAN :
         \E limit \in 1..MaxRateLimit, window \in 1..MaxWindow :
            /\ hasLimit \/ limit = 1
            /\ hasWindow \/ window = 1
            /\ \E opts \in {QueueOptions(hasLimit, limit, hasWindow, window),
                             WithWindowMs(QueueOptions(hasLimit, limit,
                                                       hasWindow, window),
                                          MaxWindow)} :
                  Constructor(opts, clock)
    /\ qpc = "idle"
    /\ idx = 0
    /\ qresults = <<>>
    /\ wakeAt = 0
    /\ starts = <<>>
    /\ windowStarts = <<>>
    /\ started = <<>>
    /\ NoSecondCall
    /\ DeploymentsAtRest
    /\ ServerAtRest

NextQueue ==
    \/ \E throws \in Throws : Add(throws)
    \/ Process
    \/ TimerFires
    \/ TaskSettles
    \/ Tick

SpecQueue == InitQueue /\ [][NextQueue]_vars

\* time passes, and goes on passing while a timer is pending
Elapse ==
    /\ clock < MaxTime \/ (qpc = "sleeping" /\ clock < wakeAt)
    /\ clock' = clock + 1
    /\ UNCHANGED <<queue, rateLimit, rateLimitWindow, qoptions, requestCount,
                   windowStart, qpc, idx, qresults, wakeAt, starts,
                   windowStarts, started, deployVars,
                   secondVars, serverVars>>

NextQueueFair ==
    \/ \E throws \in Throws : Add(throws)
    \/ Process
    \/ TimerFires
    \/ TaskSettles
    \/ Elapse

\* a queue constructed with a window of a few ms (the default window of a
\* minute is 60000 steps of the clock away)
InitQueueShortWindow ==
    /\ clock = 0
    /\ \E hasLimit \in BOOLEAN :
         \E limit \in 1..MaxRateLimit, window \in 1..MaxWindow :
            /\ hasLimit \/ limit = 1
            /\ Constructor(QueueOptions(hasLimit, limit, TRUE, window), clock)
    /\ qpc = "idle"
    /\ idx = 0
    /\ qresults = <<>>
    /\ wakeAt = 0
    /\ starts = <<>>
    /\ windowStarts = <<>>
    /\ started = <<>>
    /\ NoSecondCall
    /\ DeploymentsAtRest
    /\ ServerAtRest

\* one pass of the for loop of the second call of process(), as LoopFrom
LoopFrom2(k, count, start) ==
    LET now == clock
        expired == WindowExpired(now, start)
        count1 == IF expired THEN 0 ELSE count
        start1 == IF expired THEN now ELSE start
    IN  IF k > Len(queue)
        THEN /\ qpc2' = "done"
             /\ idx2' = k
             /\ requestCount' = count
             /\ windowStart' = start
             /\ UNCHANGED <<wakeAt2, started2>>
        ELSE IF LimitReached(count1)
        THEN /\ qpc2' = "sleeping"
             /\ idx2' = k
             /\ wakeAt2' = now + TimerDelay(rateLimitWindow - (now - start1))
             /\ requestCount' = count1
             /\ windowStart' = start1
             /\ UNCHANGED started2
        ELSE /\ qpc2' = "running"
             /\ idx2' = k
             /\ requestCount' = count1
             /\ windowStart' = start1
             /\ started2' = Append(started2, TaskAt(k).id)
             /\ UNCHANGED wakeAt2

\* what a step of the second call leaves alone
FirstCallUnchanged ==
    UNCHANGED <<clock, queue, rateLimit, rateLimitWindow, qoptions, qpc, idx,
                qresults, wakeAt, starts, windowStarts, started, deployVars,
                serverVars>>

\* queue.add(task) between the two calls of process()
AddLater(throws) ==
    /\ qpc # "idle"
    /\ qpc2 = "idle"
    /\ Len(queue) < MaxTasks
    /\ queue' = Append(queue, Task(Len(queue) + 1, throws))
    /\ UNCHANGED <<clock, rateLimit, rateLimitWindow, qoptions, requestCount,
                   windowStart, qpc, idx, qresults, wakeAt, starts,
                   windowStarts, started, deployVars,
                   secondVars, serverVars>>

\* a second call that goes on where the first one stopped, as if process()
\* had taken the tasks it ran out of the queue
ProcessAgainWhereStopped ==
    /\ qpc # "idle"
    /\ qpc2 = "idle"
    /\ qresults2' = <<>>
    /\ LoopFrom2(idx, requestCount, windowStart)
    /\ FirstCallUnchanged

\* queue.process() is called a second time, whether or not the first call
\* has settled, and runs up to its first await
ProcessAgain ==
    /\ qpc # "idle"
    /\ qpc2 = "idle"
    /\ qresults2' = <<>>
    /\ LoopFrom2(1, requestCount, windowStart)
    /\ FirstCallUnchanged

\* queue.process() is called a second time after the first call has settled
ProcessAfter ==
    /\ qpc \in {"done", "rejected"}
    /\ ProcessAgain

\* the second call resuming from the wait without starting a new window
TimerFires2WithoutReset ==
    /\ qpc2 = "sleeping"
    /\ clock >= wakeAt2
    /\ qpc2' = "running"
    /\ started2' = Append(started2, TaskAt(idx2).id)
    /\ UNCHANGED <<idx2, qresults2, wakeAt2, requestCount, windowStart>>
    /\ FirstCallUnchanged

\* the timer of the second call fires
TimerFires2 ==
    /\ qpc2 = "sleeping"
    /\ clock >= wakeAt2
    /\ requestCount' = 0
    /\ windowStart' = clock
    /\ qpc2' = "running"
    /\ started2' = Append(started2, TaskAt(idx2).id)
    /\ UNCHANGED <<idx2, qresults2, wakeAt2>>
    /\ FirstCallUnchanged

\* the task the second call awaits settles
TaskSettles2 ==
    /\ qpc2 = "running"
    /\ IF CatchClauseThrows(TaskAt(idx2))
       THEN /\ qpc2' = "rejected"
            /\ UNCHANGED <<requestCount, windowStart, idx2, qresults2,
                           wakeAt2, started2>>
       ELSE /\ qresults2' = Append(qresults2, TaskOutcome(TaskAt(idx2)))
            /\ LoopFrom2(idx2 + 1, requestCount + 1, windowStart)
    /\ FirstCallUnchanged

\* the tasks of the runs with two calls: one that resolves (a task throwing
\* an Error is counted and gone past in the same way) and one that makes
\* process() reject
RunThrows == {"nothing", "undefined"}

\* add() and process() called in any order, process() up to twice
NextQueueCalls ==
    \/ \E throws \in RunThrows : Add(throws)
    \/ Process
    \/ TimerFires
    \/ TaskSettles
    \/ Tick
    \/ \E throws \in RunThrows : AddLater(throws)
    \/ ProcessAgain
    \/ TimerFires2
    \/ TaskSettles2

SpecQueueCalls == InitQueueShortWindow /\ [][NextQueueCalls]_vars

\* the same with one process() run at a time
NextQueueRuns ==
    \/ \E throws \in RunThrows : Add(throws)
    \/ Process
    \/ TimerFires
    \/ TaskSettles
    \/ Tick
    \/ \E throws \in RunThrows : AddLater(throws)
    \/ ProcessAfter
    \/ TimerFires2
    \/ TaskSettles2

SpecQueueRuns == InitQueueShortWindow /\ [][NextQueueRuns]_vars

\* the queue where every task called settles, time passes and every timer
\* that is due fires; nobody is bound to call add() or process()
SpecQueueFair ==
    /\ InitQueueShortWindow
    /\ [][NextQueueFair]_vars
    /\ WF_vars(TaskSettles)
    /\ WF_vars(TimerFires)
    /\ WF_vars(Elapse)

\* --------------------------------------------------- deployment groups ---
\* group names as a caller may give them: with capitals, with a blank in
\* front, empty, blank
Names == {"Prod", "prod", " Prod", "Dev", "", "  "}

\* String.prototype.trim on these names
Trim(name) ==
    CASE name = " Prod" -> "Prod"
      [] name = " prod" -> "prod"
      [] name = "  " -> ""
      [] OTHER -> name

\* String.prototype.toLowerCase on these names
ToLowerCase(name) ==
    CASE name = "Prod" -> "prod"
      [] name = " Prod" -> " prod"
      [] name = "Dev" -> "dev"
      [] OTHER -> name

\* a name is falsy when it is missing or empty
Truthy(name) == name # Undefined /\ name # ""

\* the fields of a group that the operations here read or write
Group(id, name, repoIds) == [id |-> id, name |-> name, repoIds |-> repoIds]

\* groups.find((g) => g.id !== groupId &&
\*                    g.name.toLowerCase() === name.toLowerCase())
\* (createGroup has no groupId to leave out: 0 is no group's id)
FindByName(groups, name, groupId) ==
    {j \in 1..Len(groups) :
        /\ groups[j].id # groupId
        /\ ToLowerCase(groups[j].name) = ToLowerCase(name)}

\* groups.findIndex((g) => g.id === groupId), 1-based, 0 for -1
FindIndex(groups, groupId) ==
    IF \E j \in 1..Len(groups) : groups[j].id = groupId
    THEN CHOOSE j \in 1..Len(groups) :
             /\ groups[j].id = groupId
             /\ \A x \in 1..(j - 1) : groups[x].id # groupId
    ELSE 0

\* groups.splice(index, 1)
Splice(groups, index) ==
    [j \in 1..(Len(groups) - 1) |->
        IF j < index THEN groups[j] ELSE groups[j + 1]]

\* createGroup(userId, {name})
CreateGroup(userId, name) ==
    /\ ids < MaxGroups
    /\ IF ~Truthy(name) \/ Trim(name) = ""
       THEN /\ thrown' = "MISSING_NAME"
            /\ UNCHANGED <<groupStore, ids>>
       ELSE IF FindByName(groupStore[userId], name, 0) # {}
       THEN /\ thrown' = "DUPLICATE_NAME"
            /\ UNCHANGED <<groupStore, ids>>
       ELSE /\ groupStore' =
                  [groupStore EXCEPT ![userId] =
                      Append(@, Group(ids + 1, Trim(name), <<>>))]
            /\ ids' = ids + 1
            /\ thrown' = Undefined
    /\ UNCHANGED <<deployVars, queueVars, apiVars>>

\* updateGroup(userId, groupId, {name})
UpdateGroup(userId, groupId, name) ==
    /\ LET groups == groupStore[userId]
           index == FindIndex(groups, groupId)
       IN  IF index = 0
           THEN /\ thrown' = "NOT_FOUND"
                /\ UNCHANGED groupStore
           ELSE IF Truthy(name) /\ FindByName(groups, name, groupId) # {}
           THEN /\ thrown' = "DUPLICATE_NAME"
                /\ UNCHANGED groupStore
           ELSE /\ groupStore' =
                      [groupStore EXCEPT ![userId][index].name =
                          IF Truthy(name) THEN Trim(name) ELSE @]
                /\ thrown' = Undefined
    /\ UNCHANGED <<ids, deployVars, queueVars, apiVars>>

\* deleteGroup(userId, groupId)
DeleteGroup(userId, groupId) ==
    /\ LET groups == groupStore[userId]
           index == FindIndex(groups, groupId)
       IN  IF index = 0
           THEN /\ thrown' = "NOT_FOUND"
                /\ UNCHANGED groupStore
           ELSE /\ groupStore' =
                      [groupStore EXCEPT ![userId] = Splice(groups, index)]
                /\ thrown' = Undefined
    /\ UNCHANGED <<ids, deployVars, queueVars, apiVars>>

InitGroups ==
    /\ GroupsAtRest
    /\ ApiAtRest
    /\ DeploymentsAtRest
    /\ QueueAtRest

NextGroups ==
    \/ \E u \in Users, name \in Names \cup {Undefined} : CreateGroup(u, name)
    \/ \E u \in Users, g \in 1..MaxGroups, name \in Names \cup {Undefined} :
          UpdateGroup(u, g, name)
    \/ \E u \in Users, g \in 1..MaxGroups : DeleteGroup(u, g)

SpecGroups == InitGroups /\ [][NextGroups]_vars

\* ------------------------------------------ repository configurations ---
\* a saved configuration; fullName is "owner/repo", kept as its two parts
RepoConfig(id, repo, branches, isActive) ==
    [id |-> id, fullName |-> <<Owner, repo>>, selectedBranches |-> branches,
     isActive |-> isActive]

\* getRepoConfigs(userId, filters): filters is {isActive: true} or missing
GetRepoConfigs(userId, onlyActive) ==
    IF onlyActive
    THEN SelectSeq(configStore[userId], LAMBDA c : c.isActive)
    ELSE configStore[userId]

\* ids.includes(id)
Includes(ids_, id) == \E j \in 1..Len(ids_) : ids_[j] = id

\* configs.map((c) => { const [owner, repo] = c.fullName.split('/');
\*                      return { owner, repo, branches: c.selectedBranches,
\*                               message }; })
RepoList(configs, message) ==
    [j \in 1..Len(configs) |->
        [owner |-> configs[j].fullName[1], repo |-> configs[j].fullName[2],
         branches |-> configs[j].selectedBranches, message |-> message]]

\* ------------------------------------------------- the deploy endpoint ---
\* what a handler does first: it returns a response, or it calls the
\* orchestrator and awaits it
Respond(statusCode) == [kind |-> "response", statusCode |-> statusCode]

CallBatch(repoList) ==
    [kind |-> "triggerBatchDeployment", repoList |-> repoList]

CallSingle(config) == [kind |-> "triggerDeployment", config |-> config]

\* extractToken(event): the Authorization header after 'Bearer ', or null
ExtractToken(authorization) ==
    CASE authorization = "Bearer ghp_1" -> "ghp_1"
      [] authorization = "Bearer " -> ""
      [] OTHER -> Undefined

\* a repository a request names directly; without branches it is ['main']
DirectRepo(repo, hasBranches, branches) ==
    [owner |-> Owner, repo |-> repo, hasBranches |-> hasBranches,
     branches |-> branches]

BranchesOrMain(r) == IF r.hasBranches THEN r.branches ELSE <<"main">>

\* the body of a request: not JSON, the JSON null, or a JSON object
DeployBody(action, hasConfigIds, configIds, hasRepos, repos_, single) ==
    [kind |-> "object", action |-> action,
     hasConfigIds |-> hasConfigIds, configIds |-> configIds,
     hasRepos |-> hasRepos, repos |-> repos_,
     single |-> single, message |-> Undefined]

MalformedBody ==
    [DeployBody(Undefined, FALSE, <<>>, FALSE, <<>>, FALSE)
        EXCEPT !.kind = "malformed"]

NullBody ==
    [DeployBody(Undefined, FALSE, <<>>, FALSE, <<>>, FALSE)
        EXCEPT !.kind = "null"]

\* the handler of the deploy endpoint skipping the check of the token
DeployHandlerWithoutTokenCheck(event) ==
    LET body == event.body
        userId == event.userId
    IN  IF event.httpMethod = "OPTIONS" THEN Respond(204)
        ELSE IF event.httpMethod # "POST" THEN Respond(405)
        ELSE IF ~Truthy(userId) THEN Respond(401)
        ELSE IF body.kind = "malformed" THEN Respond(400)
        ELSE IF body.kind = "null" THEN Respond(500)
        ELSE IF body.action = "deploy-all"
        THEN LET configs == GetRepoConfigs(userId, TRUE)
             IN  IF Len(configs) = 0 THEN Respond(400)
                 ELSE CallBatch(RepoList(configs, body.message))
        ELSE IF /\ body.action = "deploy-selected"
                /\ body.hasConfigIds
                /\ Len(body.configIds) > 0
        THEN LET selectedConfigs ==
                     SelectSeq(GetRepoConfigs(userId, FALSE),
                               LAMBDA c : Includes(body.configIds, c.id))
             IN  IF Len(selectedConfigs) = 0 THEN Respond(400)
                 ELSE CallBatch(RepoList(selectedConfigs, body.message))
        ELSE IF body.hasRepos /\ Len(body.repos) > 0
        THEN CallBatch([j \in 1..Len(body.repos) |->
                           [owner |-> body.repos[j].owner,
                            repo |-> body.repos[j].repo,
                            branches |-> BranchesOrMain(body.repos[j]),
                            message |-> body.message]])
        ELSE IF body.single
        THEN CallSingle([owner |-> Owner, repo |-> 1,
                         branches |-> <<"main">>, message |-> body.message])
        ELSE Respond(400)

\* exports.handler of the deploy endpoint, from its call to its first
\* return, or to its call of the orchestrator; a body that is the JSON null
\* makes the destructuring throw inside the try, which answers 500
DeployHandler(event) ==
    LET body == event.body
        userId == event.userId
    IN  IF event.httpMethod = "OPTIONS" THEN Respond(204)
        ELSE IF event.httpMethod # "POST" THEN Respond(405)
        ELSE IF ~Truthy(ExtractToken(event.authorization)) THEN Respond(401)
        ELSE IF ~Truthy(userId) THEN Respond(401)
        ELSE IF body.kind = "malformed" THEN Respond(400)
        ELSE IF body.kind = "null" THEN Respond(500)
        ELSE IF body.action = "deploy-all"
        THEN LET configs == GetRepoConfigs(userId, TRUE)
             IN  IF Len(configs) = 0 THEN Respond(400)
                 ELSE CallBatch(RepoList(configs, body.message))
        ELSE IF /\ body.action = "deploy-selected"
                /\ body.hasConfigIds
                /\ Len(body.configIds) > 0
        THEN LET selectedConfigs ==
                     SelectSeq(GetRepoConfigs(userId, FALSE),
                               LAMBDA c : Includes(body.configIds, c.id))
             IN  IF Len(selectedConfigs) = 0 THEN Respond(400)
                 ELSE CallBatch(RepoList(selectedConfigs, body.message))
        ELSE IF body.hasRepos /\ Len(body.repos) > 0
        THEN CallBatch([j \in 1..Len(body.repos) |->
                           [owner |-> body.repos[j].owner,
                            repo |-> body.repos[j].repo,
                            branches |-> BranchesOrMain(body.repos[j]),
                            message |-> body.message]])
        ELSE IF body.single
        THEN CallSingle([owner |-> Owner, repo |-> 1,
                         branches |-> <<"main">>, message |-> body.message])
        ELSE Respond(400)

\* ------------------------------------------------ the webhook endpoint ---
\* the fields of a webhook that the trigger path reads or writes; targetId 0
\* is null
Webhook(userId, token, targetType, targetId, repoIds, isActive) ==
    [userId |-> userId, token |-> token, targetType |-> targetType,
     targetId |-> targetId, repoIds |-> repoIds, isActive |-> isActive,
     usageCount |-> 0]

\* getWebhookByToken(token): where the store holds an active webhook with
\* this token (tokens are 32 random bytes: no two webhooks share one)
ActiveWebhooks(token) ==
    {w \in Users \X (1..1) :
        /\ w[2] <= Len(webhookStore[w[1]])
        /\ webhookStore[w[1]][w[2]].token = token
        /\ webhookStore[w[1]][w[2]].isActive}

GetWebhookByToken(token) == CHOOSE w \in ActiveWebhooks(token) : TRUE

\* getGroupById(userId, groupId): the groups with this id (none: null)
GetGroupById(userId, groupId) ==
    {j \in 1..Len(groupStore[userId]) : groupStore[userId][j].id = groupId}

\* the repoList the trigger path builds from the webhook's target
WebhookRepoList(webhook) ==
    CASE webhook.targetType = "all" ->
            RepoList(GetRepoConfigs(webhook.userId, TRUE), Undefined)
      [] webhook.targetType = "group" ->
            LET found == GetGroupById(webhook.userId, webhook.targetId)
            IN  IF found = {} THEN <<>>
                ELSE LET group == groupStore[webhook.userId][
                                      CHOOSE j \in found :
                                          \A x \in found : j <= x]
                     IN  RepoList(
                             SelectSeq(GetRepoConfigs(webhook.userId, FALSE),
                                       LAMBDA c : Includes(group.repoIds, c.id)),
                             Undefined)
      [] webhook.targetType = "repos" ->
            RepoList(SelectSeq(GetRepoConfigs(webhook.userId, FALSE),
                               LAMBDA c : Includes(webhook.repoIds, c.id)),
                     Undefined)
      [] OTHER -> <<>>

\* exports.handler of the webhook endpoint for POST .../trigger and for the
\* preflight, from its call to its first return or to its call of the
\* orchestrator
WebhookHandler(event) ==
    IF event.httpMethod = "OPTIONS" THEN Respond(204)
    ELSE IF ~Truthy(event.webhookToken) THEN Respond(401)
    ELSE IF ActiveWebhooks(event.webhookToken) = {} THEN Respond(401)
    ELSE IF ~Truthy(event.githubToken) THEN Respond(400)
    ELSE LET w == GetWebhookByToken(event.webhookToken)
             repoList == WebhookRepoList(webhookStore[w[1]][w[2]])
         IN  IF Len(repoList) = 0 THEN Respond(400)
             ELSE CallBatch(repoList)

\* ------------------------------------------------- deployment history ---
Null == "<null>"

\* logDeployment(userId, data): the entry it pushes; sha 0 is null
HistoryEntry(userId, repo, branch, status, sha, errorMessage) ==
    [userId |-> userId, repo |-> repo, branch |-> branch, status |-> status,
     sha |-> sha, errorMessage |-> errorMessage]

\* the entry logged for one branch outcome of one result
LoggedOutcome(userId, result, outcome) ==
    HistoryEntry(userId, result.repo, outcome.branch,
                 IF outcome.status = "success" THEN "success" ELSE "failed",
                 IF outcome.status = "success" THEN outcome.sha ELSE 0,
                 IF outcome.status # "success" /\ Truthy(outcome.error)
                 THEN outcome.error ELSE Null)

\* logging one entry for each result, not for each branch of it
RECURSIVE LogDeploymentResultsPerRepository(_, _)
LogDeploymentResultsPerRepository(userId, rs) ==
    IF rs = <<>> THEN <<>>
    ELSE (IF Len(rs[1].branches) = 0 THEN <<>>
          ELSE <<LoggedOutcome(userId, rs[1], rs[1].branches[1])>>)
         \o LogDeploymentResultsPerRepository(userId, Tail(rs))

\* logDeploymentResults(userId, results): the entries it pushes, in order
RECURSIVE LogDeploymentResults(_, _)
LogDeploymentResults(userId, rs) ==
    IF rs = <<>> THEN <<>>
    ELSE [j \in 1..Len(rs[1].branches) |->
             LoggedOutcome(userId, rs[1], rs[1].branches[j])]
         \o LogDeploymentResults(userId, Tail(rs))

\* ------------------------------------------------- requests to the API ---
DeployEvent(httpMethod, authorization, userId, body) ==
    [endpoint |-> "deploy", httpMethod |-> httpMethod,
     authorization |-> authorization, userId |-> userId, body |-> body,
     webhookToken |-> Undefined, githubToken |-> Undefined]

WebhookEvent(httpMethod, webhookToken, githubToken) ==
    [endpoint |-> "webhook", httpMethod |-> httpMethod,
     authorization |-> Undefined, userId |-> Undefined, body |-> NullBody,
     webhookToken |-> webhookToken, githubToken |-> githubToken]

DeployBodies ==
    {MalformedBody, NullBody}
        \cup {DeployBody(action, FALSE, <<>>, FALSE, <<>>, single) :
                 action \in {Undefined, "deploy-all", "deploy-selected"},
                 single \in BOOLEAN}
        \cup {DeployBody("deploy-selected", TRUE, configIds, FALSE, <<>>, FALSE) :
                 configIds \in {<<>>, <<1>>, <<2, 1>>, <<9>>}}
        \cup {DeployBody(Undefined, TRUE, <<1>>, FALSE, <<>>, FALSE)}
        \cup {DeployBody(Undefined, FALSE, <<>>, TRUE, repos_, FALSE) :
                 repos_ \in {<<>>,
                             <<DirectRepo(1, FALSE, <<>>)>>,
                             <<DirectRepo(2, TRUE, <<"gone">>)>>}}

Events ==
    {DeployEvent(httpMethod, authorization, userId, body) :
        httpMethod \in {"OPTIONS", "GET", "POST"},
        authorization \in {Undefined, "Basic abc", "Bearer ", "Bearer ghp_1"},
        userId \in {Undefined, "", "user1"},
        body \in DeployBodies}
    \cup
    {WebhookEvent(httpMethod, webhookToken, githubToken) :
        httpMethod \in {"OPTIONS", "POST"},
        webhookToken \in {Undefined, "whk_1", "whk_2", "whk_9"},
        githubToken \in {Undefined, "ghp_1"}}

Handler(event) ==
    IF event.endpoint = "deploy" THEN DeployHandler(event)
    ELSE WebhookHandler(event)

\* the endpoint is invoked: its handler runs to its first return, or to the
\* await of the orchestrator it calls
Invoke(event) ==
    /\ hpc = "idle"
    /\ request' = event
    /\ LET call == Handler(event)
       IN  CASE call.kind = "response" ->
                  /\ response' = [statusCode |-> call.statusCode]
                  /\ hpc' = "responded"
                  /\ UNCHANGED <<repos, tasks, batchPc>>
             [] call.kind = "triggerBatchDeployment" ->
                  /\ repos' = call.repoList
                  /\ tasks' = [k \in 1..Len(call.repoList) |-> IdleTask]
                  /\ batchPc' = "loop"
                  /\ hpc' = "awaiting triggerBatchDeployment"
                  /\ UNCHANGED response
             [] call.kind = "triggerDeployment" ->
                  /\ repos' = <<call.config>>
                  /\ tasks' = <<TriggerDeployment(call.config)>>
                  /\ hpc' = "awaiting triggerDeployment"
                  /\ UNCHANGED <<batchPc, response>>
    /\ UNCHANGED <<options, faults, refs, commits, pushed, i, results,
                   batchResult, overtaken, queueVars, groupVars, configStore,
                   webhookStore, historyStore>>

\* recordWebhookUsage(webhook)
RecordWebhookUsage(store, w) ==
    [store EXCEPT ![w[1]][w[2]].usageCount = @ + 1]

\* the orchestrator the handler awaits is over: the rest of the handler.  The
\* deploy endpoint answers; the webhook endpoint records and logs, then
\* answers.  What the orchestrator throws is answered 500.
Finish ==
    /\ \/ /\ hpc = "awaiting triggerBatchDeployment"
          /\ batchPc \in {"done", "rejected"}
       \/ /\ hpc = "awaiting triggerDeployment"
          /\ tasks[1].pc \in {"resolved", "rejected"}
    /\ hpc' = "responded"
    /\ IF batchPc = "rejected" \/ tasks[1].pc = "rejected"
       THEN /\ response' = [statusCode |-> 500]
            /\ UNCHANGED <<webhookStore, historyStore>>
       ELSE /\ response' = [statusCode |-> 200]
            /\ IF request.endpoint = "webhook"
               THEN LET w == GetWebhookByToken(request.webhookToken)
                    IN  /\ webhookStore' = RecordWebhookUsage(webhookStore, w)
                        /\ historyStore' =
                               [historyStore EXCEPT ![w[1]] =
                                   @ \o LogDeploymentResults(
                                            w[1], batchResult.results)]
               ELSE UNCHANGED <<webhookStore, historyStore>>
    /\ UNCHANGED <<deployVars, queueVars, groupVars, configStore, request>>

\* what the stores hold when a request arrives: configurations saved, a
\* group and webhooks created, no deployment logged yet
ConfigLists ==
    {<<>>,
     <<RepoConfig(1, 1, <<"main">>, TRUE)>>,
     <<RepoConfig(1, 1, <<"main">>, FALSE)>>,
     <<RepoConfig(1, 1, <<"main">>, TRUE),
       RepoConfig(2, 2, <<"main", "gone">>, FALSE)>>,
     <<RepoConfig(1, 1, <<"main", "develop">>, TRUE),
       RepoConfig(2, 2, <<"main", "gone">>, TRUE)>>}

InitApi ==
    /\ configStore \in
          {[u \in Users |-> IF u = "user1" THEN cl
                            ELSE <<RepoConfig(3, 3, <<"main">>, TRUE)>>] :
              cl \in ConfigLists}
    /\ groupStore \in
          {[u \in Users |-> IF u = "user1" THEN gl ELSE <<>>] :
              gl \in {<<>>, <<Group(1, "Prod", <<2>>)>>}}
    /\ ids = Len(groupStore["user1"])
    /\ thrown = Undefined
    /\ webhookStore \in
          {[u \in Users |->
               IF u = "user1"
               THEN <<Webhook("user1", "whk_1", targetType, 1, <<2, 1>>,
                              isActive)>>
               ELSE <<Webhook("user2", "whk_2", "all", 0, <<>>, TRUE)>>] :
              targetType \in {"all", "group", "repos"},
              isActive \in BOOLEAN}
    /\ historyStore = [u \in Users |-> <<>>]
    /\ request = NoRequest
    /\ hpc = "idle"
    /\ response = NoResponse
    /\ repos = <<>>
    /\ options = NoOptions
    /\ faults = {}
    /\ refs = [r \in RepoIds |-> InitialRefs]
    /\ commits = [r \in RepoIds |-> InitialCommits]
    /\ pushed = FALSE
    /\ batchPc = "uncalled"
    /\ i = 0
    /\ results = <<>>
    /\ batchResult = NoBatchResult
    /\ tasks = <<>>
    /\ overtaken = FALSE
    /\ QueueAtRest

NextApi ==
    \/ \E event \in Events : Invoke(event)
    \/ StartChunk
    \/ \E k \in 1..Len(repos) : Reply(k)
    \/ SettleChunk
    \/ Return
    \/ Finish

SpecApi == InitApi /\ [][NextApi]_vars

\* ============================================================== claims ===
Resolved == {k \in 1..Len(repos) : tasks[k].pc = "resolved"}

InFlight == {k \in 1..Len(repos) : tasks[k].pc = "awaiting"}

AllHave(rs, s) == \A j \in 1..Len(rs) : rs[j].status = s

Failures(rs) == Cardinality({j \in 1..Len(rs) : rs[j].status = "failed"})

\* C1 as stated: for every branch list, the empty one included, the status
\* is 'failed' iff every branch outcome is 'failed', 'success' iff every
\* branch outcome is 'success', and 'partial' otherwise.
C1_StatusIffAllAlike ==
    \A k \in Resolved :
        LET v == tasks[k].value
        IN  /\ v.status = "failed" <=> AllHave(v.branches, "failed")
            /\ v.status = "success" <=> AllHave(v.branches, "success")
            /\ v.status = "partial" <=>
                   (~AllHave(v.branches, "failed") /\
                    ~AllHave(v.branches, "success"))

\* C1 amended: for every non-empty branch list the status is 'failed' iff
\* every branch outcome is 'failed' (k = n), 'success' iff every outcome is
\* 'success' (k = 0), and 'partial' otherwise (0 < k < n); for the empty
\* list, where both hold at once, the status is 'failed'.
C1_StatusByFailures ==
    \A k \in Resolved :
        LET v == tasks[k].value
            n == Len(repos[k].branches)
            f == Failures(v.branches)
        IN  /\ Len(v.branches) = n
            /\ n = 0 => v.status = "failed"
            /\ n > 0 =>
                /\ v.status = "failed" <=> AllHave(v.branches, "failed")
                /\ v.status = "success" <=> AllHave(v.branches, "success")
                /\ v.status = "failed" <=> f = n
                /\ v.status = "success" <=> f = 0
                /\ v.status = "partial" <=> (0 < f /\ f < n)

C1_Witness ==
    \E k \in Resolved :
        /\ tasks[k].value.status = "partial"
        /\ Len(tasks[k].value.branches) = MaxBranches

\* C2: triggerDeployment never rejects, whatever the upstream does on each
\* branch (success, an error reply at any of the four steps, a network
\* exception): a settled call is resolved with a RepositoryDeploymentResult,
\* and no chunk of triggerBatchDeployment sees a rejected repository task.
C2_NeverRejects ==
    /\ batchPc # "rejected"
    /\ \A k \in 1..Len(repos) :
          /\ tasks[k].pc \in {"idle", "awaiting", "resolved"}
          /\ tasks[k].pc = "awaiting" => tasks[k].step \in 1..4
          /\ tasks[k].pc = "resolved" =>
                /\ tasks[k].value.status \in {"success", "partial", "failed"}
                /\ tasks[k].value.repo = <<repos[k].owner, repos[k].repo>>

C2_Witness ==
    /\ batchPc = "done"
    /\ \E k \in Resolved :
          /\ tasks[k].caught.name = "TypeError"
          /\ \E j \in 1..Len(tasks[k].value.branches) :
                /\ tasks[k].value.branches[j].status = "failed"
                /\ tasks[k].value.branches[j].error = "fetch failed"

\* C3: triggerBatchDeployment returns exactly one result per input
\* repository, in input order, for every concurrency >= 1, whatever the
\* order in which the repositories of a chunk complete and whichever fail.
C3_ResultsInInputOrder ==
    /\ \A k \in 1..Len(results) :
          /\ k <= Len(repos)
          /\ results[k] = tasks[k].value
          /\ results[k].repo = <<repos[k].owner, repos[k].repo>>
          /\ Len(results[k].branches) = Len(repos[k].branches)
          /\ \A j \in 1..Len(results[k].branches) :
                results[k].branches[j].branch = repos[k].branches[j]
    /\ batchPc = "done" =>
          /\ batchResult.results = results
          /\ Len(batchResult.results) = Len(repos)

C3_Witness ==
    /\ batchPc = "done"
    /\ overtaken
    /\ Len(batchResult.results) = MaxRepos
    /\ batchResult.results[1].status = "failed"
    /\ batchResult.results[2].status = "success"
    /\ batchResult.results[MaxRepos].status = "partial"

\* the chunk (0, 1, ...) that repos[k] belongs to
ChunkOf(k) == (k - 1) \div Concurrency(options)

\* C4: chunk boundaries are a strict barrier: no upstream call for a
\* repository of chunk N+1 is issued before every repository deployment of
\* chunk N (and of the chunks before it) has settled.
C4_ChunkBarrier ==
    \A k \in 1..Len(repos) :
        (tasks[k].pc # "idle" \/ tasks[k].invoked # <<>>) =>
            \A j \in 1..Len(repos) :
                ChunkOf(j) < ChunkOf(k) => tasks[j].pc = "resolved"

C4_Witness ==
    /\ Len(repos) = 3
    /\ Concurrency(options) = 2
    /\ tasks[1].results # <<>>
    /\ tasks[2].results # <<>>
    /\ tasks[3].pc = "awaiting"
    /\ tasks[3].step = 4

\* the upstream calls that are outstanding: one per suspended deployment
OutstandingCalls ==
    {<<k, tasks[k].b, tasks[k].step>> : k \in InFlight}

\* C5: with concurrency c >= 1, at most c repository deployments are in
\* flight at any moment, and so at most c upstream calls are outstanding.
C5_AtMostConcurrencyInFlight ==
    /\ Concurrency(options) >= 1
    /\ Cardinality(InFlight) <= Concurrency(options)
    /\ Cardinality(OutstandingCalls) <= Concurrency(options)
    /\ \A k \in InFlight : k \in Chunk

C5_Witness ==
    /\ Len(repos) > Concurrency(options)
    /\ Concurrency(options) = MaxConcurrency
    /\ Cardinality(OutstandingCalls) = Concurrency(options)
    /\ \E k \in 1..Len(repos) : tasks[k].pc = "idle"

\* the tasks started in the interval of length rateLimitWindow that begins
\* with the start of the a-th task
StartedWithinWindowOf(a) ==
    {b \in 1..Len(starts) :
        starts[a] <= starts[b] /\ starts[b] < starts[a] + rateLimitWindow}

\* C6 as stated: process() never starts more than rateLimit tasks within
\* any interval of length rateLimitWindow (a sliding window).
C6_SlidingWindow ==
    \A a \in 1..Len(starts) :
        Cardinality(StartedWithinWindowOf(a)) <= rateLimit

\* C6 amended: process() never starts more than rateLimit tasks in a window
\* aligned to windowStart, that is between one setting of windowStart and
\* the next, and each of them starts no later than rateLimitWindow after
\* windowStart; an interval of length rateLimitWindow that spans a reset of
\* the window can hold up to 2 * rateLimit starts.
C6_AlignedWindow ==
    /\ Len(windowStarts) <= rateLimit
    /\ \A j \in 1..Len(windowStarts) :
          /\ windowStart <= windowStarts[j]
          /\ windowStarts[j] <= windowStart + rateLimitWindow
    /\ \A a \in 1..Len(starts) :
          Cardinality(StartedWithinWindowOf(a)) <= 2 * rateLimit

C6_Witness ==
    /\ qpc = "done"
    /\ rateLimit = 2
    /\ Len(starts) = 3
    /\ Len(windowStarts) = 1
    /\ windowStart > 0
    /\ Cardinality(StartedWithinWindowOf(1)) = 3

\* C7: the summaries count every element exactly once: for triggerDeployment
\* total = length(branches) = successful + failed, for
\* triggerBatchDeployment total = length(results) = successful + failed +
\* partial.
C7_SummariesAddUp ==
    /\ \A k \in Resolved :
          LET v == tasks[k].value
          IN  /\ v.summary.total = Len(repos[k].branches)
              /\ v.summary.total = Len(v.branches)
              /\ v.summary.total = v.summary.successful + v.summary.failed
              /\ v.summary.successful =
                    Cardinality({j \in 1..Len(v.branches) :
                                    v.branches[j].status = "success"})
    /\ batchPc = "done" =>
          LET m == batchResult.summary
          IN  /\ m.total = Len(batchResult.results)
              /\ m.total = Len(repos)
              /\ m.total = m.successful + m.failed + m.partial
              /\ m.partial =
                    Cardinality({k \in 1..Len(repos) :
                                    tasks[k].value.status = "partial"})

C7_Witness ==
    /\ batchPc = "done"
    /\ batchResult.summary.total = MaxRepos
    /\ batchResult.summary.successful = 1
    /\ batchResult.summary.partial >= 1
    /\ batchResult.summary.failed >= 1

\* C8: triggerDeployment invokes createEmptyCommit exactly once for every
\* input branch, in input order, and returns exactly one BranchOutcome per
\* input branch in input order; a failed branch never keeps the branches
\* after it from being attempted.
C8_EveryBranchOnceInOrder ==
    \A k \in 1..Len(repos) :
        LET t == tasks[k]
            bs == repos[k].branches
        IN  /\ Len(t.invoked) <= Len(bs)
            /\ \A j \in 1..Len(t.invoked) : t.invoked[j] = bs[j]
            /\ \A j \in 1..Len(t.results) : t.results[j].branch = bs[j]
            /\ t.pc = "awaiting" => Len(t.invoked) = Len(t.results) + 1
            /\ t.pc = "resolved" =>
                  /\ t.invoked = bs
                  /\ Len(t.value.branches) = Len(bs)
                  /\ \A j \in 1..Len(bs) : t.value.branches[j].branch = bs[j]

C8_Witness ==
    \E k \in Resolved :
        /\ repos[k].branches = <<"develop", "main">>
        /\ tasks[k].invoked = <<"develop", "main">>
        /\ tasks[k].value.branches[1].status = "failed"
        /\ tasks[k].value.branches[2].status = "success"

\* the reply to its step 4 call has just made the deployment of repos[k]
\* record a successful branch
StepFourSucceeds(k) ==
    /\ tasks[k].pc = "awaiting"
    /\ tasks[k].step = 4
    /\ Len(tasks'[k].results) = Len(tasks[k].results) + 1
    /\ tasks'[k].results[Len(tasks'[k].results)].status = "success"

\* the branch of the call repos[k] has outstanding still points to the head
\* that step 1 resolved
NotMovedMeanwhile(k) ==
    refs[repos[k].repo][repos[k].branches[tasks[k].b]] =
        tasks[k].currentCommitSha

\* C9: when all four steps of createEmptyCommit succeed (and nobody else
\* moved the branch meanwhile), the commit created
\* in step 3 has the tree of the head commit resolved in step 1 and that
\* head as its only parent, the branch ref points to the new commit
\* afterwards, and the result has the new commit's sha and the input branch.
C9_EmptyCommitOnHead ==
    [][\A k \in 1..Len(repos) :
          (StepFourSucceeds(k) /\ NotMovedMeanwhile(k)) =>
              LET t == tasks[k]
                  repo == repos[k].repo
                  branch == repos[k].branches[t.b]
                  outcome == tasks'[k].results[Len(tasks'[k].results)]
                  created == commits'[repo][t.newCommitSha]
              IN  /\ created.parents = <<t.currentCommitSha>>
                  /\ created.tree = commits'[repo][t.currentCommitSha].tree
                  /\ created.message = EffectiveMessage(repos[k].message)
                  /\ t.newCommitSha # t.currentCommitSha
                  /\ refs'[repo][branch] = t.newCommitSha
                  /\ outcome.sha = t.newCommitSha
                  /\ outcome.branch = branch]_vars

C9_Witness ==
    \E k \in Resolved :
        /\ repos[k].branches = <<"develop">>
        /\ tasks[k].value.branches[1].status = "success"
        /\ refs[repos[k].repo]["develop"] = tasks[k].value.branches[1].sha
        /\ commits[repos[k].repo][tasks[k].value.branches[1].sha].tree = 12
        /\ pushed

ClaimedCode == <<"REF_NOT_FOUND", "COMMIT_NOT_FOUND", "COMMIT_CREATE_FAILED",
                 "REF_UPDATE_FAILED">>

ClaimedGenericMessage ==
    <<"Failed to get branch reference", "Failed to get commit data",
      "Failed to create commit", "Failed to update branch reference">>

\* the replies the upstream can give to the call repos[k] has outstanding
PossibleReplies(k) ==
    {Serve(tasks[k], repos[k].repo, repos[k].branches[tasks[k].b]).reply}
        \cup faults

\* C10: a non-success HTTP response at step k makes createEmptyCommit fail
\* with a DeploymentError whose code is REF_NOT_FOUND, COMMIT_NOT_FOUND,
\* COMMIT_CREATE_FAILED or REF_UPDATE_FAILED for k = 1, 2, 3, 4, whose
\* status is the upstream status, and whose message is the upstream message
\* when there is one (a non-empty one) and the step's generic message
\* otherwise; the failed BranchOutcome reports that message and code.
C10_TypedFailurePerStep ==
    \A k \in InFlight :
        \A reply \in PossibleReplies(k) :
            (reply.kind = "http" /\ ~reply.ok) =>
                LET t == tasks[k]
                    branch == repos[k].branches[t.b]
                    r == CreateEmptyCommitStep(t, branch, reply)
                    after == Resume(t, repos[k], reply)
                    outcome == after.results[Len(after.results)]
                IN  /\ r.kind = "throw"
                    /\ r.error.name = "DeploymentError"
                    /\ r.error.code = ClaimedCode[t.step]
                    /\ r.error.status = reply.status
                    /\ r.error.message =
                          IF reply.message \notin {Undefined, ""}
                          THEN reply.message
                          ELSE ClaimedGenericMessage[t.step]
                    /\ Len(after.results) = Len(t.results) + 1
                    /\ outcome.status = "failed"
                    /\ outcome.branch = branch
                    /\ outcome.error = r.error.message
                    /\ outcome.code = r.error.code
                    /\ after.caught = r.error

C10_Witness ==
    \E k \in Resolved :
        /\ Len(tasks[k].value.branches) = 2
        /\ tasks[k].value.branches[1].status = "failed"
        /\ tasks[k].value.branches[1].code = "COMMIT_CREATE_FAILED"
        /\ tasks[k].value.branches[1].error = "Failed to create commit"
        /\ tasks[k].value.branches[2].status = "failed"
        /\ tasks[k].value.branches[2].code = "REF_UPDATE_FAILED"
        /\ tasks[k].value.branches[2].error = "Update is not a fast forward"
        /\ tasks[k].caught.status = 422

\* the reply to its outstanding call has just been delivered to the
\* deployment of repos[k]
Resumed(k) == tasks[k].pc = "awaiting" /\ tasks'[k] # tasks[k]

\* ... and the createEmptyCommit invocation it was in has failed
FailsNow(k) ==
    /\ Resumed(k)
    /\ Len(tasks'[k].results) = Len(tasks[k].results) + 1
    /\ tasks'[k].results[Len(tasks'[k].results)].status = "failed"

\* C11 as stated: every createEmptyCommit invocation that fails, at any
\* step, leaves the branch ref exactly as it was.
C11_FailedInvocationLeavesRef ==
    [][\A k \in 1..Len(repos) :
          LET repo == repos[k].repo
              branch == repos[k].branches[tasks[k].b]
          IN  (FailsNow(k) /\ branch \in DOMAIN refs[repo]) =>
                  refs'[repo][branch] = refs[repo][branch]]_vars

\* C11 amended: createEmptyCommit changes the target branch ref by nothing
\* but the update request of step 4, and only when the upstream applies it:
\* an invocation that fails at step 1, 2 or 3, or whose step 4 the upstream
\* answered with a non-success status, leaves every ref as it was (while an
\* invocation whose step 4 response is lost fails although the ref may have
\* moved to the new commit); no commit object is ever removed, so the
\* commit created in step 3 stays behind when step 4 fails.
C11_RefMovesOnlyByAppliedUpdate ==
    [][/\ \A r \in RepoIds : \A sha \in DOMAIN commits[r] :
              sha \in DOMAIN commits'[r] /\ commits'[r][sha] = commits[r][sha]
       /\ \A k \in 1..Len(repos) :
              Resumed(k) =>
                  LET t == tasks[k]
                      repo == repos[k].repo
                      branch == repos[k].branches[t.b]
                  IN  /\ \A r \in RepoIds : \A b \in DOMAIN refs[r] :
                            refs'[r][b] # refs[r][b] =>
                                /\ r = repo /\ b = branch
                                /\ t.step = 4
                                /\ refs'[r][b] = t.newCommitSha
                      /\ (FailsNow(k) /\
                          tasks'[k].caught.name = "DeploymentError") =>
                              refs' = refs
                      /\ (FailsNow(k) /\ t.step = 4) =>
                              /\ t.newCommitSha \in DOMAIN commits'[repo]
                              /\ commits'[repo][t.newCommitSha].parents =
                                     <<t.currentCommitSha>>]_vars

\* step 3 created commit 3 on main, step 4 was refused, and main is where it
\* was, the orphaned commit still in the store
C11_Witness ==
    \E k \in Resolved :
        /\ repos[k].branches = <<"main">>
        /\ tasks[k].value.branches[1].status = "failed"
        /\ tasks[k].value.branches[1].code = "REF_UPDATE_FAILED"
        /\ ~pushed
        /\ refs[repos[k].repo]["main"] = 1
        /\ 3 \in DOMAIN commits[repos[k].repo]
        /\ commits[repos[k].repo][3].parents = <<1>>

\* the tasks that have settled: one outcome each, or the rejection
Settled == Len(qresults) + (IF qpc = "rejected" THEN 1 ELSE 0)

\* C12: process() starts the tasks strictly in the order they were added
\* and strictly one at a time: task i+1 is not started until task i has
\* settled (resolved or thrown).
C12_FifoOneAtATime ==
    /\ Len(started) <= Len(queue)
    /\ \A j \in 1..Len(started) : started[j] = queue[j].id /\ started[j] = j
    /\ Len(started) \in {Settled, Settled + 1}
    /\ Len(started) = Settled + 1 <=> qpc = "running"
    /\ qpc = "running" => idx = Len(started)
    /\ Len(starts) = Len(started)
    /\ \A j \in 1..(Len(starts) - 1) : starts[j] <= starts[j + 1]

C12_Witness ==
    /\ qpc = "running"
    /\ Len(queue) = 3
    /\ started = <<1, 2, 3>>
    /\ Len(qresults) = 2
    /\ queue[2].throws = "Error"
    /\ starts[1] < starts[2]
    /\ starts[2] < starts[3]

\* what the claim says process() records for a task
ClaimedOutcome(task) ==
    IF task.throws = "nothing"
    THEN [status |-> "success", result |-> task.id]
    ELSE [status |-> "error", error |-> ErrorMessage(task)]

\* C13: process() resolves with exactly one outcome per queued task, in
\* add() order: {status: success, result} for a task that resolved and
\* {status: error, error: message} for a task that threw; a failing task
\* never prevents any later task from being executed.
C13_OneOutcomePerTask ==
    /\ qpc # "rejected"
    /\ \A j \in 1..Len(qresults) :
          /\ j <= Len(queue)
          /\ qresults[j].status = ClaimedOutcome(queue[j]).status
          /\ qresults[j].status = "success" => qresults[j].result = j
    /\ qpc \in {"done", "rejected"} =>
          /\ Len(qresults) = Len(queue)
          /\ Len(started) = Len(queue)

\* the shas of the successful outcomes among rs
ReturnedShas(rs) == {rs[j].sha : j \in {x \in 1..Len(rs) : rs[x].status = "success"}}

\* C14: every createEmptyCommit invocation whose step 3 the upstream
\* carries out creates exactly one new commit object (no other step creates
\* one), and nothing deduplicates invocations: with an upstream that gives
\* every created commit a fresh sha, no two successful invocations return
\* the same sha, a repeated invocation with the same arguments included.
C14_FreshCommitPerInvocation ==
    [][\A k \in 1..Len(repos) :
          Resumed(k) =>
              LET t == tasks[k]
                  repo == repos[k].repo
                  created == DOMAIN commits'[repo] \ DOMAIN commits[repo]
                  after == tasks'[k].results
              IN  /\ t.step # 3 => created = {}
                  /\ Cardinality(created) <= 1
                  /\ (tasks'[k].pc = "awaiting" /\ tasks'[k].step = 4) =>
                        /\ t.step = 3
                        /\ created = {tasks'[k].newCommitSha}
                  /\ StepFourSucceeds(k) =>
                        /\ after[Len(after)].sha \notin ReturnedShas(t.results)
                        /\ after[Len(after)].sha \notin DOMAIN InitialCommits
                        /\ after[Len(after)].sha \in DOMAIN commits'[repo]
                  /\ \A a, b \in 1..Len(after) :
                        (/\ a # b
                         /\ after[a].status = "success"
                         /\ after[b].status = "success") =>
                            after[a].sha # after[b].sha]_vars

\* main deployed twice with the same arguments: two commits, two shas
C14_Witness ==
    \E k \in Resolved :
        /\ repos[k].branches = <<"main", "main">>
        /\ tasks[k].value.status = "success"
        /\ tasks[k].value.branches[1].sha # tasks[k].value.branches[2].sha
        /\ commits[repos[k].repo][tasks[k].value.branches[2].sha].parents =
              <<tasks[k].value.branches[1].sha>>

\* the limit and the window the claim says a queue made with these options
\* has: rateLimit and rateLimitWindowMs where given, 30 and 60000 otherwise
ClaimedRateLimit(opts) == IF opts.hasRateLimit THEN opts.rateLimit ELSE 30

ClaimedWindow(opts) ==
    IF opts.hasRateLimitWindowMs THEN opts.rateLimitWindowMs ELSE 60000

\* when a wait for the rest of the window ends, the window being `window`
\* long: at the end of the window, or 1 ms later when the wait began at the
\* very end (a timer runs 1 ms at least)
WindowEnd(window) == {windowStart + window, windowStart + window + 1}

\* C18 as stated: a DeploymentQueue constructed with {rateLimit: R,
\* rateLimitWindowMs: W} throttles with limit R and window length W; an
\* option left out is 30, or 60000 ms.
C18_WindowMsOption ==
    /\ rateLimit = ClaimedRateLimit(qoptions)
    /\ rateLimitWindow = ClaimedWindow(qoptions)
    /\ Len(windowStarts) <= ClaimedRateLimit(qoptions)
    /\ qpc = "sleeping" => wakeAt \in WindowEnd(ClaimedWindow(qoptions))

\* the window the code takes from the options: the property is
\* rateLimitWindow
WindowAsRead(opts) ==
    IF opts.hasRateLimitWindow THEN opts.rateLimitWindow ELSE 60000

\* C18 amended: a DeploymentQueue constructed with {rateLimit: R,
\* rateLimitWindow: W} (R, W positive) throttles with limit R and window
\* length W; an option left out is 30, or 60000 ms; a property
\* rateLimitWindowMs is not read.
C18_WindowOption ==
    /\ rateLimit = ClaimedRateLimit(qoptions)
    /\ rateLimitWindow = WindowAsRead(qoptions)
    /\ Len(windowStarts) <= ClaimedRateLimit(qoptions)
    /\ qpc = "sleeping" =>
          /\ Len(windowStarts) = ClaimedRateLimit(qoptions)
          /\ wakeAt \in WindowEnd(WindowAsRead(qoptions))
    /\ \A j \in 1..Len(windowStarts) :
          windowStarts[j] <= windowStart + WindowAsRead(qoptions)

\* a queue made with {rateLimit: 2, rateLimitWindow: 3, rateLimitWindowMs:
\* ...} has started two tasks and waits for the rest of its window of 3
C18_Witness ==
    /\ qoptions.hasRateLimit /\ qoptions.rateLimit = 2
    /\ qoptions.hasRateLimitWindow /\ qoptions.rateLimitWindow = 3
    /\ qoptions.hasRateLimitWindowMs
    /\ qpc = "sleeping"
    /\ Len(starts) = 2
    /\ wakeAt = windowStart + 3

\* the reply just delivered to repos[k] left it inside the createEmptyCommit
\* invocation it was in
SameInvocation(k) ==
    /\ Resumed(k)
    /\ tasks'[k].pc = "awaiting"
    /\ tasks'[k].b = tasks[k].b
    /\ Len(tasks'[k].results) = Len(tasks[k].results)

\* what repos[k] holds after the call of step `step` returned success
ReturnedSuccess(k, step) ==
    LET t == tasks[k]
        repo == repos[k].repo
        branch == repos[k].branches[t.b]
    IN  CASE step = 1 -> /\ branch \in DOMAIN refs[repo]
                         /\ tasks'[k].currentCommitSha = refs[repo][branch]
          [] step = 2 -> /\ t.currentCommitSha \in DOMAIN commits[repo]
                         /\ tasks'[k].treeSha =
                                commits[repo][t.currentCommitSha].tree
          [] step = 3 -> /\ tasks'[k].newCommitSha \notin DOMAIN commits[repo]
                         /\ tasks'[k].newCommitSha \in DOMAIN commits'[repo]

\* C20: within one createEmptyCommit invocation the four calls are issued
\* in the order ref GET, commit GET, commit POST, ref PATCH (steps 1 to 4),
\* each at most once and each only after the one before returned success;
\* once a step fails no later step is issued and nothing is retried: the
\* invocation is over and the deployment goes on to the next branch.
C20_StepsInOrderNoRetry ==
    [][\A k \in 1..Len(repos) :
          /\ (/\ tasks'[k].pc = "awaiting"
              /\ (tasks[k].pc # "awaiting" \/ tasks'[k].b # tasks[k].b)) =>
                  /\ tasks'[k].step = 1
                  /\ tasks'[k].b = tasks[k].b + 1
          /\ Resumed(k) =>
                LET t == tasks[k]
                    after == tasks'[k].results
                IN  /\ t.step \in 1..4
                    /\ IF SameInvocation(k)
                       THEN /\ t.step < 4
                            /\ tasks'[k].step = t.step + 1
                            /\ ReturnedSuccess(k, t.step)
                       ELSE /\ Len(after) = Len(t.results) + 1
                            /\ after[Len(after)].status = "success" =>
                                  t.step = 4
                            /\ tasks'[k].pc = "awaiting" =>
                                  tasks'[k].b = t.b + 1]_vars

\* the first invocation failed at its second call and was not taken up
\* again; the second one has come to its fourth call
C20_Witness ==
    \E k \in InFlight :
        /\ tasks[k].b = 2
        /\ tasks[k].step = 4
        /\ tasks[k].results[1].status = "failed"
        /\ tasks[k].results[1].code = "COMMIT_NOT_FOUND"
        /\ repos[k].branches = <<"main", "main">>

\* C19: after any sequence of createGroup, updateGroup and deleteGroup
\* calls no two groups of one user have the same stored name, compared
\* case-insensitively (different users may hold groups of the same name).
C19_NoDuplicateNames ==
    \A u \in Users :
        \A a, b \in 1..Len(groupStore[u]) :
            ToLowerCase(groupStore[u][a].name) =
                ToLowerCase(groupStore[u][b].name) => a = b

\* ---------------------------------------------------------------- C15 ---
\* the requests to the deploy endpoint the claim is about
NoBearerToken(event) == ~Truthy(ExtractToken(event.authorization))

NoUserIdentifier(event) == ~Truthy(event.userId)

MalformedJson(event) == event.body.kind = "malformed"

\* deploy-all with no active configuration, or deploy-selected with ids that
\* match no configuration of the user
NoConfigurations(event) ==
    /\ Truthy(event.userId)
    /\ event.body.kind = "object"
    /\ \/ /\ event.body.action = "deploy-all"
          /\ Len(GetRepoConfigs(event.userId, TRUE)) = 0
       \/ /\ event.body.action = "deploy-selected"
          /\ event.body.hasConfigIds
          /\ Len(event.body.configIds) > 0
          /\ \A j \in 1..Len(configStore[event.userId]) :
                ~Includes(event.body.configIds, configStore[event.userId][j].id)

BadDeployRequest ==
    /\ request.endpoint = "deploy"
    /\ \/ NoBearerToken(request)
       \/ NoUserIdentifier(request)
       \/ MalformedJson(request)
       \/ NoConfigurations(request)

\* the orchestrator was not called and no call to the upstream was issued
NeverReachedOrchestrator ==
    /\ batchPc = "uncalled"
    /\ tasks = <<>>
    /\ refs = [r \in RepoIds |-> InitialRefs]
    /\ commits = [r \in RepoIds |-> InitialCommits]

\* C15 as stated: a request to the deploy endpoint with no bearer token, no
\* user identifier, a malformed JSON body or no active/matching configurations
\* is answered with a 4xx status and never reaches the orchestrator.
C15_BadRequestAnswered4xx ==
    BadDeployRequest =>
        /\ hpc = "responded"
        /\ response.statusCode \in 400..499
        /\ NeverReachedOrchestrator

\* C15, amended: such a request never reaches the orchestrator and no upstream
\* call is issued for it; it is answered with a 4xx status unless it is a CORS
\* preflight (method OPTIONS), which is answered 204 before any check.
C15_BadRequestNeverDeploys ==
    BadDeployRequest =>
        /\ hpc = "responded"
        /\ NeverReachedOrchestrator
        /\ IF request.httpMethod = "OPTIONS"
           THEN response.statusCode = 204
           ELSE response.statusCode \in 400..499

\* a POST with a token and a user whose ids match no configuration, answered
\* 400, while the user does have configurations
C15_Witness ==
    /\ request.endpoint = "deploy"
    /\ request.httpMethod = "POST"
    /\ ~NoBearerToken(request)
    /\ NoConfigurations(request)
    /\ request.body.action = "deploy-selected"
    /\ Len(configStore[request.userId]) > 0
    /\ hpc = "responded"
    /\ response.statusCode = 400

\* ---------------------------------------------------------------- C16 ---
\* getDeploymentHistory(userId) without filters, as the history endpoint
\* returns it: every entry of the user (most recent first; the order is not
\* modelled)
GetDeploymentHistory(userId) == historyStore[userId]

DeployAllReturned200 ==
    /\ request.endpoint = "deploy"
    /\ hpc = "responded"
    /\ response.statusCode = 200
    /\ request.body.action = "deploy-all"

\* C16: after a deploy-all request to the deploy endpoint has returned 200,
\* the requesting user's deployment history is non-empty and contains an
\* entry for the deployed repository.
C16_DeployAllIsLogged ==
    DeployAllReturned200 =>
        LET history == GetDeploymentHistory(request.userId)
        IN  /\ Len(history) > 0
            /\ \E j \in 1..Len(history), k \in 1..Len(batchResult.results) :
                  history[j].repo = batchResult.results[k].repo

\* ---------------------------------------------------------------- C17 ---
\* the branch outcomes of a batch result, repository by repository
RECURSIVE BranchOutcomes(_)
BranchOutcomes(rs) ==
    IF rs = <<>> THEN <<>>
    ELSE [j \in 1..Len(rs[1].branches) |->
             [repo |-> rs[1].repo, branch |-> rs[1].branches[j].branch,
              succeeded |-> rs[1].branches[j].status = "success"]]
         \o BranchOutcomes(Tail(rs))

\* the trigger path of the webhook endpoint has answered 200
WebhookTriggered ==
    /\ request.endpoint = "webhook"
    /\ hpc = "responded"
    /\ response.statusCode = 200

\* C17: in the webhook trigger path nothing is logged before
\* triggerBatchDeployment has completed, and once the handler has gone on
\* the history of the webhook's user holds exactly one entry per branch
\* outcome of the batch result, in order, with status success for a
\* successful branch and failed otherwise; nobody else's history is written.
C17_OneEntryPerBranchOutcome ==
    request.endpoint = "webhook" =>
        IF WebhookTriggered
        THEN LET userId == GetWebhookByToken(request.webhookToken)[1]
                 history == historyStore[userId]
                 outcomes == BranchOutcomes(batchResult.results)
             IN  /\ batchPc = "done"
                 /\ Len(history) = Len(outcomes)
                 /\ \A j \in 1..Len(outcomes) :
                       /\ history[j].userId = userId
                       /\ history[j].repo = outcomes[j].repo
                       /\ history[j].branch = outcomes[j].branch
                       /\ history[j].status =
                             IF outcomes[j].succeeded THEN "success"
                             ELSE "failed"
                 /\ \A u \in Users \ {userId} : historyStore[u] = <<>>
        ELSE \A u \in Users : historyStore[u] = <<>>

\* a webhook deployed two repositories of two branches each, one branch
\* failed, and four entries were logged
C17_Witness ==
    /\ WebhookTriggered
    /\ Len(batchResult.results) = 2
    /\ Len(historyStore["user1"]) = 4
    /\ \E j \in 1..4 : historyStore["user1"][j].status = "failed"
    /\ \E j \in 1..4 : historyStore["user1"][j].status = "success"
    /\ webhookStore["user1"][1].usageCount = 1

\* ---------------------------------------------------------------- C21 ---
\* the successful branch outcomes so far, as <<task, index>>
Successes ==
    {o \in (1..Len(tasks)) \X (1..(MaxBranches + 1)) :
        /\ o[2] <= Len(tasks[o[1]].results)
        /\ tasks[o[1]].results[o[2]].status = "success"}

\* the head an invocation that succeeded had resolved at its step 1: the
\* parent of the commit it created
ResolvedHead(o) ==
    commits[repos[o[1]].repo][tasks[o[1]].results[o[2]].sha].parents

SameTarget(o, p) ==
    /\ repos[o[1]].repo = repos[p[1]].repo
    /\ tasks[o[1]].results[o[2]].branch = tasks[p[1]].results[p[2]].branch

NoTwoSuccessesOnOneHead ==
    \A o \in Successes, p \in Successes :
        (o # p /\ SameTarget(o, p)) => ResolvedHead(o) # ResolvedHead(p)

\* the update of step 4 of task k is answered while the branch is no longer
\* at the head the invocation resolved at step 1
Step4OnMovedRef(k) ==
    /\ tasks[k].pc = "awaiting"
    /\ tasks[k].step = 4
    /\ tasks'[k] # tasks[k]
    /\ refs[repos[k].repo][repos[k].branches[tasks[k].b]]
           # tasks[k].currentCommitSha

\* C21: the update of step 4 is not forced; when the branch ref has changed
\* between an invocation's step 1 and its step 4 the invocation fails with
\* REF_UPDATE_FAILED and leaves the ref as it is, so of the invocations that
\* resolved the same head of the same branch at most one succeeds.
C21_MovedRefIsNotOverwritten ==
    [][/\ \A k \in 1..Len(repos) :
              Step4OnMovedRef(k) =>
                  /\ refs' = refs
                  /\ LET rs == tasks'[k].results
                     IN  /\ Len(rs) = Len(tasks[k].results) + 1
                         /\ rs[Len(rs)].status = "failed"
                         /\ rs[Len(rs)].code = "REF_UPDATE_FAILED"
                         /\ rs[Len(rs)].branch
                                = repos[k].branches[tasks[k].b]
       /\ NoTwoSuccessesOnOneHead']_vars

\* two invocations of one chunk raced for main with nobody else pushing: one
\* succeeded, the other failed with REF_UPDATE_FAILED
C21_Witness ==
    /\ ~pushed
    /\ Len(repos) = 2
    /\ repos[1].repo = repos[2].repo
    /\ batchPc = "done"
    /\ \E k \in 1..2 :
          /\ tasks[k].results[1].branch = "main"
          /\ tasks[k].results[1].status = "success"
          /\ tasks[3 - k].results[1].branch = "main"
          /\ tasks[3 - k].results[1].status = "failed"
          /\ tasks[3 - k].results[1].code = "REF_UPDATE_FAILED"

\* ---------------------------------------------------------------- C22 ---
\* process() goes from the top of its loop to the timer
Suspends == qpc # "sleeping" /\ qpc' = "sleeping"

\* process() goes from the top of its loop straight to the task
StartsUnsuspended == qpc # "sleeping" /\ started' # started

\* process() comes back from the timer
Resumes == qpc = "sleeping" /\ qpc' # "sleeping"

\* this.rateLimitWindow - (now - this.windowStart), after the expiry check
WaitTime == rateLimitWindow - (clock - windowStart')

\* C22: before a task is issued process() suspends if and only if
\* requestCount, after the reset of an expired window, has reached rateLimit;
\* the timer is set for rateLimitWindow - (now - windowStart), which is never
\* negative (a delay of 0 runs as 1 ms), and does not fire earlier; on
\* resuming requestCount is 0 and windowStart the current time, and only then
\* is the task started.
C22_SuspendsIffLimitReached ==
    [][/\ Suspends =>
              /\ requestCount' >= rateLimit
              /\ WaitTime >= 0
              /\ wakeAt' = clock + (IF WaitTime = 0 THEN 1 ELSE WaitTime)
              /\ started' = started
       /\ StartsUnsuspended => requestCount' < rateLimit
       /\ qpc = "sleeping" =>
              \/ started' = started /\ qpc' = "sleeping"
              \/ /\ Resumes
                 /\ clock >= wakeAt
                 /\ requestCount' = 0
                 /\ windowStart' = clock'
                 /\ started' = Append(started, queue[idx].id)]_vars

\* process() is suspended in the middle of a window, for the rest of it
C22_Witness ==
    /\ qpc = "sleeping"
    /\ requestCount = rateLimit
    /\ Len(started) >= 1
    /\ windowStart < clock
    /\ clock < wakeAt
    /\ wakeAt = windowStart + rateLimitWindow

\* ---------------------------------------------------------------- C23 ---
\* what the expiry check before a task makes of the counters, `count` being
\* requestCount as the loop arrives with it
AfterExpiryCheck(count) ==
    IF clock - windowStart > rateLimitWindow
    THEN requestCount' = 0 /\ windowStart' = clock
    ELSE requestCount' = count /\ windowStart' = windowStart

\* process() is called: its first pass of the loop
ProcessCalled == qpc = "idle" /\ qpc' # "idle"

\* the task process() awaits settles (the clock stands still in that step)
TaskSettled == qpc = "running" /\ clock' = clock

\* C23: before each task, when the time since windowStart exceeds
\* rateLimitWindow, process() sets requestCount to 0 and windowStart to now,
\* and otherwise the expiry check leaves both as they are; requestCount is
\* incremented by exactly one for every executed task, whether it succeeded
\* or threw.
C23_ExpiryCheckAndCount ==
    [][/\ (ProcessCalled /\ Len(queue) > 0) => AfterExpiryCheck(requestCount)
       /\ TaskSettled =>
              IF idx < Len(queue)
              THEN AfterExpiryCheck(requestCount + 1)
              ELSE /\ requestCount' = requestCount + 1
                   /\ windowStart' = windowStart]_vars

\* ---------------------------------------------------------------- C24 ---
\* the createEmptyCommit invocations triggerDeployment call k has made that
\* have not settled: each has one upstream call outstanding
Unsettled(k) == Len(tasks[k].invoked) - Len(tasks[k].results)

\* C24: within one triggerDeployment call the branches are taken one after
\* another in input order: the first upstream call for a branch is issued
\* only in the step in which the sequence for the branch before it settles
\* (its outcome is recorded), and at most one upstream call of the
\* repository deployment is outstanding at any time.
C24_BranchesOneAfterAnother ==
    [][\A k \in 1..Len(tasks) :
          /\ tasks'[k].invoked # tasks[k].invoked =>
                 /\ Len(tasks[k].invoked) < Len(repos[k].branches)
                 /\ tasks'[k].invoked =
                        Append(tasks[k].invoked,
                               repos[k].branches[Len(tasks[k].invoked) + 1])
                 /\ Len(tasks'[k].results) = Len(tasks[k].invoked)
                 /\ tasks'[k].step = 1
          /\ Unsettled(k)' \in {0, 1}
          /\ (tasks'[k].pc = "awaiting") = (Unsettled(k)' = 1)]_vars

\* the first call for the second branch is outstanding, the first branch
\* having failed at its third call
C24_Witness ==
    /\ Len(tasks) = 1
    /\ tasks[1].pc = "awaiting"
    /\ tasks[1].b = 2
    /\ tasks[1].step = 1
    /\ Len(tasks[1].results) = 1
    /\ tasks[1].results[1].status = "failed"
    /\ tasks[1].results[1].code = "COMMIT_CREATE_FAILED"

\* ---------------------------------------------------------------- C26 ---
\* C26 as stated: within one triggerDeployment call the calls for the
\* branches are fanned out in parallel, so once the call for a repository
\* with two or more branches is made and before anything has settled, calls
\* for two different branches are outstanding.
C26_BranchesFannedOut ==
    \A k \in 1..Len(tasks) :
        (/\ Len(repos[k].branches) >= 2
         /\ tasks[k].pc = "awaiting"
         /\ Len(tasks[k].results) = 0)
            => Len(tasks[k].invoked) >= 2

\* C26, amended: within one triggerDeployment call the calls for the
\* branches are not fanned out: the branches invoked so far are a prefix of
\* the branch list, all of them settled but possibly the last, so no state
\* has upstream calls for two branches of one repository deployment
\* outstanding.
C26_NoFanOutWithinRepository ==
    \A k \in 1..Len(tasks) :
        LET invoked == tasks[k].invoked
            settled == tasks[k].results
        IN  /\ Len(invoked) <= Len(repos[k].branches)
            /\ \A j \in 1..Len(invoked) : invoked[j] = repos[k].branches[j]
            /\ Len(settled) <= Len(invoked)
            /\ Len(invoked) <= Len(settled) + 1
            /\ \A j \in 1..Len(settled) : settled[j].branch = invoked[j]

\* two repositories of two branches each are deployed in one chunk: both
\* have a call outstanding, each for its first branch alone
C26_Witness ==
    /\ Len(tasks) >= 2
    /\ \A k \in 1..2 :
          /\ Len(repos[k].branches) = 2
          /\ tasks[k].pc = "awaiting"
          /\ tasks[k].step = 3
          /\ tasks[k].invoked = <<repos[k].branches[1]>>

\* ---------------------------------------------------------------- C27 ---
\* C27: triggerBatchDeployment terminates: for every finite repoConfigs and
\* every integer concurrency >= 0, provided every upstream call eventually
\* settles, the call eventually resolves with a BatchDeploymentResult.
C27_BatchTerminates == <>(batchPc = "done")

\* ---------------------------------------------------------------- C28 ---
\* every task of the queue was started exactly once, in order
EachStartedOnce == started = [k \in 1..Len(queue) |-> queue[k].id]

\* C28: process() terminates: if every queued task eventually settles and
\* every rate-limit timer eventually fires, a process() run eventually
\* resolves, having started each task of the queue exactly once, whatever
\* rateLimit >= 1 and the length of the queue.
C28_ProcessTerminates ==
    (qpc # "idle") ~> (qpc = "done" /\ EachStartedOnce)

\* ---------------------------------------------------------------- C25 ---
\* a call of process() is in its loop: at a task or at the timer
InLoop(pc) == pc \in {"running", "sleeping"}

\* C25: whatever the sequence of add() and process() calls, a process() call
\* made before an earlier one has resolved included, only one processing
\* loop at a time updates requestCount and windowStart: never are two loops
\* under way, nor two tasks of the queue executing, at the same time.
C25_OneLoopAtATime ==
    /\ ~(InLoop(qpc) /\ InLoop(qpc2))
    /\ ~(qpc = "running" /\ qpc2 = "running")

\* ---------------------------------------------------------------- C29 ---
\* C29: in every reachable state of a queue driven by one process() run at
\* a time, 0 <= requestCount <= rateLimit.
C29_RequestCountWithinLimit ==
    /\ 0 <= requestCount
    /\ requestCount <= rateLimit

\* the second run, made after the first, has ended with the count at the
\* limit, having waited for a window
C29_Witness ==
    /\ qpc \in {"done", "rejected"}
    /\ qpc2 = "done"
    /\ Len(started) >= 1
    /\ Len(started2) > rateLimit
    /\ requestCount = rateLimit

\* ---------------------------------------------------------------- C30 ---
\* the ids of the tasks of the queue, in order
QueuedIds(q) == [k \in 1..Len(q) |-> q[k].id]

\* C30: process() never removes tasks from the queue: the queue changes by
\* add() alone, which appends, so after a run has resolved the queue holds
\* the tasks it held before in the same order, and a later process() call
\* that resolves has executed every task again, those of the earlier run
\* first.
C30_QueueIsNeverDrained ==
    [][/\ Len(queue') >= Len(queue)
       /\ SubSeq(queue', 1, Len(queue)) = queue
       /\ (qpc' # qpc \/ qpc2' # qpc2 \/ idx' # idx \/ idx2' # idx2)
              => queue' = queue
       /\ (qpc' = "done" /\ qpc2' = "done") =>
              /\ started2' = QueuedIds(queue')
              /\ SubSeq(started2', 1, Len(started')) = started']_vars

\* two tasks ran in the first run, a third was added, and the second run
\* ran all three
C30_Witness ==
    /\ qpc = "done"
    /\ qpc2 = "done"
    /\ started = <<1, 2>>
    /\ started2 = <<1, 2, 3>>
    /\ Len(qresults2) = 3

====
